---- MODULE Spec2Model ----
(***************************************************************************)
(* A model of starlette_jsonapi: the error taxonomy (exceptions.py), the   *)
(* shared error serializer (utils.py) and the per-request lifecycle of a   *)
(* resource handler (resource.py, _BaseResourceHandler.handle_request),    *)
(* for one BaseResource subclass with one related relationship and one     *)
(* BaseRelationshipResource subclass mounted under it (Spec, SpecErr);     *)
(* route registration by register_routes (SpecReg); the sparse-fieldset    *)
(* helpers of utils.py (SpecSparse); the query parameters of the           *)
(* pagination classes of pagination.py (SpecPage); one list passed as      *)
(* `errors` to several exceptions (SpecList); concurrent requests on a     *)
(* related route and serialize_related (SpecRelated); BaseResource's       *)
(* serialize with pagination and compound inclusion (SpecSer); and the     *)
(* links and relationships of a schema dump, fields.py and schema.py       *)
(* (SpecDump).                                                              *)
(***************************************************************************)
EXTENDS Integers, Sequences, FiniteSets, TLC

\* ------------------------------------------------------------------ bounds

\* Number of requests served in a run.
MaxRequests == 2
\* Longest errors list handed to JSONAPIException / produced by validation.
MaxErrors == 2
\* Number of register_routes calls made in a run.
MaxCalls == 3
\* Longest list of resource objects in the data of a document.
MaxItems == 2
\* Longest value of a query parameter, in characters.
MaxValueLen == 3
\* max_page_size of the pagination classes; default_page_size is drawn up to one more.
MaxPageSize == 3

\* How often one list object is passed as `errors` to JSONAPIException.
MaxPasses == 2

\* --------------------------------------------------------------- constants

\* Python's None where a string is expected / where a status is expected.
NoDetail == "<None>"

\* http.HTTPStatus(status_code).phrase, as used by HTTPException when detail is None.
HTTPStatusPhrase(status_code) ==
    CASE status_code = 400 -> "Bad Request"
      [] status_code = 401 -> "Unauthorized"
      [] status_code = 404 -> "Not Found"
      [] status_code = 405 -> "Method Not Allowed"
      [] status_code = 500 -> "Internal Server Error"
      [] OTHER -> "Unknown"

StatusCodes == {400, 401, 404, 405, 500}

\* A json:api error object {'detail': detail}.
ErrorObject(detail) == [detail |-> detail]

\* -------------------------------------------------------------- exceptions

\* starlette.exceptions.HTTPException(status_code, detail=None)
HTTPException(status_code, detail) ==
    [kind |-> "http",
     status_code |-> status_code,
     detail |-> IF detail = NoDetail THEN HTTPStatusPhrase(status_code) ELSE detail,
     errors |-> <<>>]

\* JSONAPIException with the detail entry put first (mutant).
JSONAPIException_DetailFirst(status_code, detail, errors) ==
    LET base == HTTPException(status_code, detail)
    IN  [base EXCEPT !.kind = "jsonapi",
                     !.errors = <<ErrorObject(base.detail)>> \o errors]

\* JSONAPIException.__init__: errors = errors or []; errors.append({'detail': self.detail})
\* (a None errors argument is the empty sequence here: both are falsy).
JSONAPIException(status_code, detail, errors) ==
    LET base == HTTPException(status_code, detail)
    IN  [base EXCEPT !.kind = "jsonapi",
                     !.errors = errors \o <<ErrorObject(base.detail)>>]

ResourceNotFoundDetail == "Resource object not found."

\* ResourceNotFound.__init__(status_code=404, detail=None)
ResourceNotFound(status_code, detail) ==
    JSONAPIException(status_code,
                     IF detail # NoDetail THEN detail ELSE ResourceNotFoundDetail,
                     <<>>)

\* Any exception that is not an HTTPException (ValueError('boom'), KeyError, ...).
OtherException(type, message) ==
    [kind |-> "other", status_code |-> 0, detail |-> message, errors |-> <<>>,
     type |-> type]

IsHTTPException(exc) == exc.kind \in {"http", "jsonapi"}

\* ---------------------------------------------------------------- responses

\* JSONAPIResponse(status_code, content): the body is a mapping from top-level keys.
JSONAPIResponse(status_code, content) == [status_code |-> status_code, body |-> content]

\* serialize_error that leaks the message of an unexpected exception (mutant).
serialize_error_Leaky(exc) ==
    JSONAPIResponse(
        IF IsHTTPException(exc) THEN exc.status_code ELSE 500,
        [errors |-> IF exc.kind = "jsonapi" THEN exc.errors
                    ELSE <<ErrorObject(exc.detail)>>])

\* utils.serialize_error
serialize_error(exc) ==
    LET status_code == IF exc.kind = "jsonapi" THEN exc.status_code
                       ELSE IF exc.kind = "http" THEN exc.status_code
                       ELSE 500
        errors == IF exc.kind = "jsonapi" THEN exc.errors
                  ELSE IF exc.kind = "http" THEN <<ErrorObject(exc.detail)>>
                  ELSE <<ErrorObject("Internal server error")>>
    IN  JSONAPIResponse(status_code, [errors |-> errors])

\* A handle_error that logs whatever it is handed.
LogsError_Always(exc) == TRUE

\* _BaseResourceHandler.handle_error: logger.exception(...) is called exactly for
\* the exceptions that are not HTTPExceptions.
LogsError(exc) == ~IsHTTPException(exc)

\* _BaseResourceHandler.handle_error: the response handed back for exc.
handle_error(exc) == serialize_error(exc)

\* ------------------------------------------------------------ configuration

Methods == {"GET", "PATCH", "POST", "DELETE"}

\* _BaseResourceHandler.allowed_methods
DefaultAllowedMethods == {"GET", "PATCH", "POST", "DELETE"}

\* The two handler classes of the application: a BaseResource subclass and a
\* BaseRelationshipResource subclass for its relationship `rel`.
Classes == {"resource", "relationship"}

\* The handler methods a subclass can override.
HandlerNames(cls) ==
    IF cls = "resource"
    THEN {"get", "patch", "delete", "get_many", "post", "get_related"}
    ELSE {"get", "patch", "post", "delete"}

\* method.lower()
Lower(method) ==
    CASE method = "GET" -> "get"
      [] method = "PATCH" -> "patch"
      [] method = "POST" -> "post"
      [] method = "DELETE" -> "delete"

\* allowed_methods a subclass may declare.
AllowedChoices == {DefaultAllowedMethods, {"GET"}}

\* ----------------------------------------------------------- request context

Keys == {"relationship", "id", "related_id", "parent_id", "stash"}

\* A dict entry: its value, and (ghost) the serial of the request that wrote it;
\* 0 marks an entry written when the routes were registered, Stale one written
\* by a request that has been answered since.
Stale == 0 - 1
Absent == [v |-> "<absent>", by |-> 0]
EmptyDict == [k \in Keys |-> Absent]
Truthy(dict) == \E k \in Keys : dict[k] # Absent
Update(dict, key, value, by) == [dict EXCEPT ![key] = [v |-> value, by |-> by]]

\* ------------------------------------------------------------------ routes

NoCtx == "<None>"

\* The relationship declared on the resource's schema with a related_resource.
Relationship == "rel"

\* BaseResource.register_routes: the routes of the mount. bound_ctx names the dict
\* object bound as request_context by functools.partial (NoCtx when none is bound).
ResourceRoutes ==
    { [cls |-> "resource", name |-> "rel-id", method |-> "GET",
       handler_name |-> "get_related", extract_params |-> <<"id", "related_id">>,
       bound_ctx |-> "rel-id"],
      [cls |-> "resource", name |-> "rel", method |-> "GET",
       handler_name |-> "get_related", extract_params |-> <<"id">>,
       bound_ctx |-> "rel"],
      [cls |-> "resource", name |-> "get", method |-> "GET",
       handler_name |-> "get", extract_params |-> <<"id">>, bound_ctx |-> NoCtx],
      [cls |-> "resource", name |-> "patch", method |-> "PATCH",
       handler_name |-> "patch", extract_params |-> <<"id">>, bound_ctx |-> NoCtx],
      [cls |-> "resource", name |-> "delete", method |-> "DELETE",
       handler_name |-> "delete", extract_params |-> <<"id">>, bound_ctx |-> NoCtx],
      [cls |-> "resource", name |-> "get_many", method |-> "GET",
       handler_name |-> "get_many", extract_params |-> <<>>, bound_ctx |-> NoCtx],
      [cls |-> "resource", name |-> "post", method |-> "POST",
       handler_name |-> "post", extract_params |-> <<>>, bound_ctx |-> NoCtx] }

\* The dict objects created by register_routes and bound to the related routes.
BoundCtxs == {"rel-id", "rel"}

\* BaseRelationshipResource.register_routes: one route per allowed method.
RelationshipRoutes(allowed_methods) ==
    { [cls |-> "relationship", name |-> "relationships-rel", method |-> m,
       handler_name |-> Lower(m), extract_params |-> <<"parent_id">>,
       bound_ctx |-> NoCtx] : m \in allowed_methods }

RouteTable(allowed) == ResourceRoutes \cup RelationshipRoutes(allowed["relationship"])

\* Methods the router lets through to a route's endpoint: Route(methods=[m]) also
\* accepts HEAD when m is GET.
RouterAccepts(route, method) ==
    \/ route.method = method
    \/ route.method = "GET" /\ method = "HEAD"

\* ------------------------------------------- resource classes and their routes

\* An attribute a class body does not define: the lookup goes on to the base class.
Unset == "<unset>"
None == "<None>"

\* not x, for the values of this model: the empty string, None and the number 0
\* (numbers are written "int 0", "int 1" to tell them from the texts "0", "1").
Falsy(value) == value \in {"", None, "int 0"}

\* The class attributes BaseResource itself defines. `mount` and `_related` are
\* only annotated there, so BaseResource holds no value for them.
BaseResource ==
    [base |-> "object", type_ |-> "", schema |-> "JSONAPISchema",
     id_mask |-> "str", register_as |-> ""]

Body(base, type_, schema, id_mask, register_as) ==
    [base |-> base, type_ |-> type_, schema |-> schema,
     id_mask |-> id_mask, register_as |-> register_as]

\* The BaseResource subclasses an application defines.
ResourceClasses ==
    {"TResource", "NoTypeResource", "NoSchemaResource", "ArticlesResource",
     "ArticlesV2Resource", "EndpointsResource", "DraftsResource"}

\* What each class body sets; everything else is inherited.
ClassBody(cls) ==
    CASE cls = "TResource" ->
            Body("BaseResource", "test-resource", Unset, Unset, Unset)
      [] cls = "NoTypeResource" ->
            Body("BaseResource", Unset, Unset, Unset, Unset)
      [] cls = "NoSchemaResource" ->
            Body("BaseResource", "things", None, Unset, Unset)
      [] cls = "ArticlesResource" ->
            Body("BaseResource", "articles", "ArticleSchema", Unset, Unset)
      [] cls = "ArticlesV2Resource" ->
            Body("ArticlesResource", Unset, Unset, Unset, "v2-articles")
      [] cls = "EndpointsResource" ->
            Body("BaseResource", "endpoints", "EndpointSchema", "int", Unset)
      [] cls = "DraftsResource" ->
            Body("BaseResource", "drafts", "DraftSchema", Unset, Unset)

\* Attribute lookup along the base classes.
RECURSIVE GetAttr(_, _)
GetAttr(cls, attr) ==
    IF cls = "BaseResource" THEN BaseResource[attr]
    ELSE IF ClassBody(cls)[attr] # Unset THEN ClassBody(cls)[attr]
    ELSE GetAttr(ClassBody(cls).base, attr)

\* meta.registered_resources: every resource class, by its class name.
registered_resources == ResourceClasses

\* Schema fields: plain attributes, and JSONAPIRelationship fields with the
\* related_resource they were declared with (a class name, or None).
Attribute(name) == [name |-> name, relationship |-> FALSE, related_resource |-> None]
JSONAPIRelationship(name, related_resource) ==
    [name |-> name, relationship |-> TRUE, related_resource |-> related_resource]

\* JSONAPISchema.get_fields(): the declared fields, in declaration order.
get_fields(schema) ==
    CASE schema = "JSONAPISchema" -> <<>>
      [] schema = "ArticleSchema" ->
            << Attribute("id"), Attribute("title"),
               JSONAPIRelationship("author", "TResource"),
               JSONAPIRelationship("comments", None) >>
      [] schema = "EndpointSchema" ->
            << Attribute("id"),
               JSONAPIRelationship("get", "TResource"),
               JSONAPIRelationship("post", "ArticlesResource") >>
      [] schema = "DraftSchema" ->
            << Attribute("id"), JSONAPIRelationship("author", "AuthorsResource") >>

\* JSONAPIRelationship.related_resource_class: a name no class bears gives None.
related_resource_class(field) ==
    IF field.related_resource \in registered_resources
    THEN field.related_resource ELSE None

\* The `_related` dict register_routes builds, as the sequence of its items.
RECURSIVE FindRelated(_)
FindRelated(fields) ==
    IF fields = <<>> THEN <<>>
    ELSE LET field == Head(fields) IN
         (IF field.relationship /\ ~Falsy(field.related_resource)
          THEN << [name |-> field.name, cls |-> related_resource_class(field)] >>
          ELSE <<>>) \o FindRelated(Tail(fields))

\* Paths are sequences of literal pieces and '{name:mask}' parameters.
Lit(text) == [param |-> FALSE, text |-> text, mask |-> ""]
Param(name, mask) == [param |-> TRUE, text |-> name, mask |-> mask]

\* str.rstrip('/')
RECURSIVE rstrip(_)
rstrip(path) ==
    IF path # <<>> /\ path[Len(path)] = Lit("/")
    THEN rstrip(SubSeq(path, 1, Len(path) - 1))
    ELSE path

\* The base_path arguments register_routes is called with: '' and '/v2/'.
BasePaths == { <<>>, <<Lit("/"), Lit("v2"), Lit("/")>> }

\* functools.partial(cls.handle_request, handler_name, ...)
Partial(cls, handler_name, relationship, extract_params, request_context) ==
    [cls |-> cls, handler_name |-> handler_name, relationship |-> relationship,
     extract_params |-> extract_params, request_context |-> request_context]

\* starlette.routing.Route; a route name is the sequence of the pieces it is
\* formatted from.
Route(path, endpoint, methods, name) ==
    [path |-> path, endpoint |-> endpoint, methods |-> methods, name |-> name]

\* starlette.routing.Mount
Mount(name, path, routes) == [name |-> name, path |-> path, routes |-> routes]

\* Secondary related routes named like the related routes (mutant).
RelatedIdRoutes_SameName(cls, found) ==
    [i \in 1..Len(found) |->
        Route(<< Lit("/"), Param("id", GetAttr(cls, "id_mask")), Lit("/"),
                 Lit(found[i].name), Lit("/"),
                 Param("related_id", GetAttr(found[i].cls, "id_mask")) >>,
              Partial(cls, "get_related", found[i].name, <<"id", "related_id">>,
                      found[i].name),
              {"GET"}, <<found[i].name>>)]

\* /{id}/{rel}/{related_id}, one per item of _related.
RelatedIdRoutes(cls, found) ==
    [i \in 1..Len(found) |->
        Route(<< Lit("/"), Param("id", GetAttr(cls, "id_mask")), Lit("/"),
                 Lit(found[i].name), Lit("/"),
                 Param("related_id", GetAttr(found[i].cls, "id_mask")) >>,
              Partial(cls, "get_related", found[i].name, <<"id", "related_id">>,
                      found[i].name),
              {"GET"}, <<found[i].name, "-id">>)]

\* A registration that leaves the /{id}/{rel} routes out (mutant).
RelatedRoutes_LeftOut(cls, found) == <<>>

\* /{id}/{rel}, one per item of _related.
RelatedRoutes(cls, found) ==
    [i \in 1..Len(found) |->
        Route(<< Lit("/"), Param("id", GetAttr(cls, "id_mask")), Lit("/"),
                 Lit(found[i].name) >>,
              Partial(cls, "get_related", found[i].name, <<"id">>, found[i].name),
              {"GET"}, <<found[i].name>>)]

\* The primary routes: /{id} and /.
PrimaryRoutes(cls) ==
    LET item == << Lit("/"), Param("id", GetAttr(cls, "id_mask")) >> IN
    << Route(item, Partial(cls, "get", None, <<"id">>, None), {"GET"}, <<"get">>),
       Route(item, Partial(cls, "patch", None, <<"id">>, None), {"PATCH"}, <<"patch">>),
       Route(item, Partial(cls, "delete", None, <<"id">>, None), {"DELETE"}, <<"delete">>),
       Route(<<Lit("/")>>, Partial(cls, "get_many", None, <<>>, None), {"GET"},
             <<"get_many">>),
       Route(<<Lit("/")>>, Partial(cls, "post", None, <<>>, None), {"POST"}, <<"post">>) >>

\* app.routes.append(cls.mount), replacing a mount of the same name (mutant).
AppendMount_Replace(routes, new) ==
    IF \E i \in 1..Len(routes) : routes[i].name = new.name
    THEN [i \in 1..Len(routes) |-> IF routes[i].name = new.name THEN new ELSE routes[i]]
    ELSE Append(routes, new)

\* app.routes.append(cls.mount)
AppendMount(routes, new) == Append(routes, new)

\* The BaseRelationshipResource subclasses an application defines. allowed_methods
\* is a set: the order a loop visits it in is not fixed.
RelationshipClasses ==
    {"ArticlesAuthorRelationship", "ArticlesV2CommentsRelationship", "NoTypeRelationship"}

RelationshipBody(cls) ==
    CASE cls = "ArticlesAuthorRelationship" ->
            [parent_resource |-> "ArticlesResource", relationship_name |-> "author",
             allowed_methods |-> {"GET", "PATCH"}]
      [] cls = "ArticlesV2CommentsRelationship" ->
            [parent_resource |-> "ArticlesV2Resource", relationship_name |-> "comments",
             allowed_methods |-> {"GET"}]
      [] cls = "NoTypeRelationship" ->
            [parent_resource |-> "NoTypeResource", relationship_name |-> "rel",
             allowed_methods |-> {"GET"}]

\* The orders a loop over a set can visit its members in.
Orders(S) ==
    { order \in [1..Cardinality(S) -> S] :
        \A i, j \in 1..Cardinality(S) : i # j => order[i] # order[j] }

\* /{parent_id}/relationships/{relationship_name}, for one allowed method.
RelationshipRoute(cls, method) ==
    LET body == RelationshipBody(cls) IN
    Route(<< Lit("/"), Param("parent_id", GetAttr(body.parent_resource, "id_mask")),
             Lit("/relationships/"), Lit(body.relationship_name) >>,
          Partial(cls, Lower(method), None, <<"parent_id">>, None),
          {method}, <<"relationships-", body.relationship_name>>)

\* ----------------------------------------------------------- request bodies

JSONAPIMediaType == "application/vnd.api+json"

\* request.headers.get('content-type'): absent, the json:api media type, or another.
ContentTypes == {"<None>", JSONAPIMediaType, "application/json"}

\* (the backquotes of the source's messages are written as quotes here)
ContentTypeDetail ==
    "Incorrect or missing Content-Type header, expected 'application/vnd.api+json'."

\* What schema validation reports for a resource document (marshmallow-jsonapi's
\* {'errors': [...]}): error objects with a source pointer.
ValidationErrors ==
    { [detail |-> "'data' object must include 'type' key.", source |-> "/data"],
      [detail |-> "Missing data for required field.", source |-> "/data/attributes/name"] }

\* What the relationship field's deserializer reports (ValidationError.messages).
LinkageMessages ==
    { "Must include a 'data' key", "Must have an 'id' field" }

SeqsUpTo(S, n) == UNION { [1..k -> S] : k \in 0..n }

\* A request body: empty or not JSON (request.json() raises), or a JSON document
\* together with the failures validation finds in it as a resource document
\* (failures) and as a linkage document (messages).
Bodies ==
    { [text |-> t, failures |-> <<>>, messages |-> <<>>] : t \in {"empty", "garbage"} }
    \cup { [text |-> "json", failures |-> f, messages |-> <<>>] :
             f \in SeqsUpTo(ValidationErrors, MaxErrors) }
    \cup { [text |-> "json", failures |-> <<>>, messages |-> m] :
             m \in SeqsUpTo(LinkageMessages, MaxErrors) }

NoBody == [text |-> "unread", failures |-> <<>>, messages |-> <<>>]

\* schema.validate(body, partial=partial).get('errors'): partial drops the
\* required-field failures.
Validate(body, partial) ==
    IF partial
    THEN SelectSeq(body.failures, LAMBDA e : e.detail # "Missing data for required field.")
    ELSE body.failures

\* The outcome of a deserialization helper: it raised exc or returned; body_read
\* tells whether request.json() was awaited.
Fails(exc, body_read) == [raised |-> TRUE, exc |-> exc, body_read |-> body_read]
Succeeds == [raised |-> FALSE, exc |-> OtherException("none", "none"), body_read |-> TRUE]

\* The content-type check made for POST only (mutant).
ContentTypeChecked_PostOnly(method) == method = "POST"

\* `self.request.method in ('POST', 'PATCH')`
ContentTypeChecked(method) == method \in {"POST", "PATCH"}

\* BaseResource.validate_body (deserialize_body loads the body it returns).
validate_body(method, content_type, body, partial) ==
    IF ContentTypeChecked(method) /\ content_type # JSONAPIMediaType
    THEN Fails(JSONAPIException(400, ContentTypeDetail, <<>>), FALSE)
    ELSE IF body.text # "json"
    THEN Fails(JSONAPIException(400, "Could not read request body as JSON.", <<>>), TRUE)
    ELSE IF Validate(body, partial) # <<>>
    THEN Fails(JSONAPIException(400, NoDetail, Validate(body, partial)), TRUE)
    ELSE Succeeds

\* errors.append({'detail': message}) for message in exc.messages
RECURSIVE MessagesToErrors(_)
MessagesToErrors(messages) ==
    IF messages = <<>> THEN <<>>
    ELSE <<ErrorObject(Head(messages))>> \o MessagesToErrors(Tail(messages))

\* BaseRelationshipResource.deserialize_ids
deserialize_ids(method, content_type, body) ==
    IF ContentTypeChecked(method) /\ content_type # JSONAPIMediaType
    THEN Fails(JSONAPIException(400, ContentTypeDetail, <<>>), FALSE)
    ELSE IF body.text # "json"
    THEN Fails(JSONAPIException(400, "Could not read request body.", <<>>), TRUE)
    ELSE IF body.messages # <<>>
    THEN Fails(JSONAPIException(400, NoDetail, MessagesToErrors(body.messages)), TRUE)
    ELSE Succeeds

\* ------------------------------------------------------------------- state

VARIABLES
    allowed,      \* allowed_methods of each handler class
    implemented,  \* the handler methods each class overrides
    boundCtx,     \* the dict objects bound to the related routes by register_routes
    req,          \* the requests being served, by task
    served,       \* number of requests received so far
    excArgs,      \* the arguments of the exception constructed last
    excObj,       \* the exception constructed last
    excOut,       \* the response serialize_error built for it
    app_routes,   \* app.routes: the mounts appended by register_routes, in order
    mount,        \* the `mount` attribute each resource class holds in its own body
    related,      \* the `_related` attribute each resource class holds in its own body
    lastCall,     \* the register_routes call made last, and the route table before it
    sparse,       \* the sparse-fieldset helper applied last: its input and its result
    paginator,    \* the paginator constructed last, and the response of its request
    callerErrors, \* a list object its owner passes as `errors` to JSONAPIException
    serialized    \* the serialize call made last: its arguments, its steps, its output

lifeVars == <<allowed, implemented, boundCtx, req, served>>
excVars == <<excArgs, excObj, excOut>>
regVars == <<app_routes, mount, related, lastCall>>
utilVars == <<sparse, paginator>>
docVars == <<callerErrors, serialized>>

\* The tasks serving requests: the requests of Spec are served one after the other.
Tasks == {1}

Ids == {"foo", "bar"}

\* No register_routes call was made yet.
NoCall ==
    [serial |-> 0, kind |-> "none", cls |-> "none", base_path |-> <<>>,
     raised |-> None, before |-> <<>>]

\* The application and the resource classes before any register_routes call.
NothingRegistered ==
    /\ app_routes = <<>>
    /\ mount = [cls \in ResourceClasses |-> 0]
    /\ related = [cls \in ResourceClasses |-> [set |-> FALSE, items |-> <<>>]]
    /\ lastCall = NoCall

\* No sparse-fieldset helper was applied, no paginator was constructed.
NoSparse == [op |-> "none"]
NoPaginator == [strategy |-> "none"]

\* No list is kept for passing as `errors`; serialize was not called.
NoList == [initial |-> <<>>, now |-> <<>>, passes |-> 0]
NotSerialized == [op |-> "none"]

NoResponse == JSONAPIResponse(0, [none |-> TRUE])

NoArgs == [class |-> "none", status_code |-> 0, detail |-> NoDetail, errors |-> <<>>]

\* The path parameters of no request; the `self` link serialize_related has not built.
NoParams == [id |-> None, related_id |-> None]
NoLink == [route |-> "none", id |-> None, related_id |-> None]

\* An idle task.
IdleRequest ==
    [pc |-> "idle", serial |-> 0, cls |-> "resource", route |-> "none",
     method |-> "GET", handler_name |-> "none", ctx_ref |-> NoCtx,
     own_ctx |-> EmptyDict, response |-> NoResponse,
     before_raised |-> FALSE, constructed |-> FALSE, handler_calls |-> 0,
     handler_raised |-> FALSE, handler_response |-> NoResponse, after_calls |-> 0,
     after_arg |-> NoResponse, after_raised |-> FALSE,
     last_exc |-> OtherException("none", "none"), logged |-> 0,
     helper |-> "none", content_type |-> "<None>", body |-> NoBody,
     body_read |-> FALSE, path_params |-> NoParams, self_link |-> NoLink]

\* The request_context dict a request works on: its own fresh dict, or the dict
\* object bound to its route.
ContextOf(r) ==
    IF req[r].ctx_ref = "own" THEN req[r].own_ctx ELSE boundCtx[req[r].ctx_ref]

\* Exceptions user code (hooks, handlers) raises in this model.
UserExceptions ==
    { JSONAPIException(401, NoDetail, <<>>),
      HTTPException(404, "nope"),
      OtherException("ValueError", "boom") }

Init ==
    /\ allowed \in [Classes -> AllowedChoices]
    /\ implemented \in [Classes -> {{}, {"get", "patch", "delete", "get_many", "post", "get_related"}}]
    /\ boundCtx = [c \in BoundCtxs |-> Update(EmptyDict, "relationship", Relationship, 0)]
    /\ req = [r \in Tasks |-> IdleRequest]
    /\ served = 0
    /\ excArgs = NoArgs
    /\ excObj = OtherException("none", "none")
    /\ excOut = NoResponse
    /\ NothingRegistered
    /\ sparse = NoSparse
    /\ paginator = NoPaginator
    /\ callerErrors = NoList
    /\ serialized = NotSerialized

\* ------------------------------------------------------- the request lifecycle

\* An except clause that lets everything but HTTPException through (mutant).
CaughtByExcept_OnlyHTTP(exc) == IsHTTPException(exc)

\* `except Exception`: the exception classes the three try blocks of handle_request
\* catch (every exception user code raises here derives from Exception).
CaughtByExcept(exc) == exc.kind \in {"http", "jsonapi", "other"}

\* after_request run whether or not before_request raised (mutant).
StageAfterBefore_AlwaysAfter(raised) == IF raised THEN "after" ELSE "dispatch"

\* try/except/else around before_request: the handler stage and the after_request
\* hook live in the else branch.
StageAfterBefore(raised) == IF raised THEN "done" ELSE "dispatch"

\* The allowed_methods check left out (mutant).
MethodAllowed_Unchecked(method, allowed_methods) == TRUE

\* `if request.method not in cls.allowed_methods: raise JSONAPIException(405)`
MethodAllowed(method, allowed_methods) == method \in allowed_methods

\* A default handler that answers 404 (mutant).
DefaultHandler_NotFound(handler_name) == ResourceNotFound(404, NoDetail)

\* BaseResource.get/patch/delete/get_many/post/get_related and
\* BaseRelationshipResource.post/get/patch/delete: raise JSONAPIException(405).
DefaultHandler(handler_name) == JSONAPIException(405, NoDetail, <<>>)

\* An after_request failure that leaves the handler stage's response in place (mutant).
ResponseAfterHook_KeepFirst(response, raised, exc) == response

\* try/except around after_request: its exception replaces the response.
ResponseAfterHook(response, raised, exc) ==
    IF raised THEN handle_error(exc) ELSE response

\* for path_param in extract_params: request_context.update({path_param: value})
RECURSIVE ExtractParams(_, _, _, _)
ExtractParams(dict, extract_params, path_params, by) ==
    IF extract_params = <<>> THEN dict
    ELSE ExtractParams(Update(dict, Head(extract_params), path_params[Head(extract_params)], by),
                       Tail(extract_params), path_params, by)

\* Write dict as the request_context of request r (through the bound dict object
\* when the request works on one).
SetContext(r, dict, record) ==
    IF record.ctx_ref = "own"
    THEN /\ req' = [req EXCEPT ![r] = [record EXCEPT !.own_ctx = dict]]
         /\ UNCHANGED boundCtx
    ELSE /\ req' = [req EXCEPT ![r] = record]
         /\ boundCtx' = [boundCtx EXCEPT ![record.ctx_ref] = dict]

\* The router matches a request and calls handle_request, which picks the
\* request_context (`request_context or {}`) and copies the path parameters into it.
Receive(r) ==
    /\ req[r].pc = "idle"
    /\ served < MaxRequests
    /\ \E route \in RouteTable(allowed), method \in Methods \cup {"HEAD"},
          id \in Ids, related_id \in Ids :
        /\ RouterAccepts(route, method)
        /\ route.name # "rel-id" => related_id = id
        /\ LET path_params == [k \in Keys |->
                                 IF k = "related_id" THEN related_id ELSE id]
               bound == route.bound_ctx
               use_bound == IF bound = NoCtx THEN FALSE ELSE Truthy(boundCtx[bound])
               ctx0 == IF use_bound THEN boundCtx[bound] ELSE EmptyDict
               ctx1 == ExtractParams(ctx0, route.extract_params, path_params, served + 1)
               record == [IdleRequest EXCEPT
                            !.pc = "before", !.serial = served + 1,
                            !.cls = route.cls, !.route = route.name,
                            !.method = method, !.handler_name = route.handler_name,
                            !.ctx_ref = IF use_bound THEN bound ELSE "own"]
           IN  SetContext(r, ctx1, record)
    /\ served' = served + 1
    /\ UNCHANGED <<allowed, implemented, excVars, regVars, utilVars, docVars>>

\* The error path of a try block: the exception is handed to handle_error, or
\* leaves handle_request when the except clause does not catch it.
Raised(record, exc, stage) ==
    IF CaughtByExcept(exc)
    THEN [record EXCEPT
            !.response = handle_error(exc),
            !.last_exc = exc,
            !.logged = @ + (IF LogsError(exc) THEN 1 ELSE 0),
            !.pc = stage]
    ELSE [record EXCEPT !.last_exc = exc, !.pc = "propagated"]

\* await cls.before_request(request, request_context)
BeforeRequest(r) ==
    /\ req[r].pc = "before"
    /\ \/ /\ req' = [req EXCEPT ![r].pc = StageAfterBefore(FALSE)]
          /\ UNCHANGED boundCtx
       \/ SetContext(r, Update(ContextOf(r), "stash", "hook-data", req[r].serial),
                     [req[r] EXCEPT !.pc = StageAfterBefore(FALSE)])
       \/ \E e \in UserExceptions :
            /\ req' = [req EXCEPT ![r] =
                         Raised([req[r] EXCEPT !.before_raised = TRUE], e,
                                StageAfterBefore(TRUE))]
            /\ UNCHANGED boundCtx
    /\ UNCHANGED <<allowed, implemented, served, excVars, regVars, utilVars, docVars>>

\* The allowed_methods check, the construction of the resource and the call of the
\* named handler.
Dispatch(r) ==
    /\ req[r].pc = "dispatch"
    /\ IF ~MethodAllowed(req[r].method, allowed[req[r].cls])
       THEN LET rec == Raised([req[r] EXCEPT !.handler_raised = TRUE],
                              JSONAPIException(405, NoDetail, <<>>), "after")
            IN  req' = [req EXCEPT ![r] = [rec EXCEPT !.handler_response = rec.response]]
       ELSE req' = [req EXCEPT ![r].constructed = TRUE, ![r].pc = "handler"]
    /\ UNCHANGED <<allowed, implemented, boundCtx, served, excVars, regVars, utilVars, docVars>>

\* The overrides that read the request body: post and patch, and delete on the
\* relationship resource (its body names the members to remove).
ReadsBody(cls, handler_name) ==
    \/ handler_name \in {"post", "patch"}
    \/ cls = "relationship" /\ handler_name = "delete"

\* A successful response of an overridden handler.
HandlerOk == JSONAPIResponse(200, [data |-> "ok"])

\* response = await handler(*args, **kwargs): the default handler, or the
\* subclass's override, which returns a response or raises.
Handler(r) ==
    /\ req[r].pc = "handler"
    /\ LET called == [req[r] EXCEPT !.handler_calls = @ + 1]
           finish(rec) == req' = [req EXCEPT ![r] =
                                    [rec EXCEPT !.handler_response = rec.response]]
           \* the override reads the body through a deserialization helper first
           deserializing(content_type, body) ==
               LET helper == IF req[r].cls = "resource" THEN "deserialize_body"
                             ELSE "deserialize_ids"
                   result == IF req[r].cls = "resource"
                             THEN validate_body(req[r].method, content_type, body,
                                                req[r].handler_name = "patch")
                             ELSE deserialize_ids(req[r].method, content_type, body)
                   read == [called EXCEPT !.helper = helper,
                                          !.content_type = content_type,
                                          !.body = body,
                                          !.body_read = result.body_read]
               IN  IF result.raised
                   THEN finish(Raised([read EXCEPT !.handler_raised = TRUE],
                                      result.exc, "after"))
                   ELSE finish([read EXCEPT !.response = HandlerOk, !.pc = "after"])
       IN  IF req[r].handler_name \notin implemented[req[r].cls]
           THEN finish(Raised([called EXCEPT !.handler_raised = TRUE],
                              DefaultHandler(req[r].handler_name), "after"))
           ELSE \/ finish([called EXCEPT !.response = HandlerOk, !.pc = "after"])
                \/ \E e \in UserExceptions :
                     finish(Raised([called EXCEPT !.handler_raised = TRUE], e, "after"))
                \/ /\ ReadsBody(req[r].cls, req[r].handler_name)
                   /\ \E content_type \in ContentTypes, body \in Bodies :
                        /\ req[r].cls = "resource" => body.messages = <<>>
                        /\ req[r].cls = "relationship" => body.failures = <<>>
                        /\ deserializing(content_type, body)
    /\ UNCHANGED <<allowed, implemented, boundCtx, served, excVars, regVars, utilVars, docVars>>

\* await cls.after_request(request, request_context, response)
AfterRequest(r) ==
    /\ req[r].pc = "after"
    /\ LET called == [req[r] EXCEPT !.after_calls = @ + 1,
                                    !.after_arg = req[r].response,
                                    !.pc = "done"]
       IN  \/ /\ req' = [req EXCEPT ![r] =
                           [called EXCEPT !.response =
                              ResponseAfterHook(req[r].response, FALSE, req[r].last_exc)]]
              /\ UNCHANGED boundCtx
           \/ \E e \in UserExceptions :
                /\ req' = [req EXCEPT ![r] =
                             LET rec == Raised([called EXCEPT !.after_raised = TRUE],
                                               e, "done")
                             IN  [rec EXCEPT !.response =
                                    IF rec.pc = "done"
                                    THEN ResponseAfterHook(req[r].response, TRUE, e)
                                    ELSE req[r].response]]
                /\ UNCHANGED boundCtx
    /\ UNCHANGED <<allowed, implemented, served, excVars, regVars, utilVars, docVars>>

\* handle_request has returned its response; the task is free for the next request.
Return(r) ==
    /\ req[r].pc = "done"
    /\ req' = [req EXCEPT ![r] = IdleRequest]
    /\ boundCtx' = [c \in BoundCtxs |-> [k \in Keys |->
                       IF boundCtx[c][k].by = req[r].serial
                       THEN [boundCtx[c][k] EXCEPT !.by = Stale]
                       ELSE boundCtx[c][k]]]
    /\ UNCHANGED <<allowed, implemented, served, excVars, regVars, utilVars, docVars>>

Next ==
    \/ \E r \in DOMAIN req : Receive(r)
    \/ \E r \in DOMAIN req : BeforeRequest(r)
    \/ \E r \in DOMAIN req : Dispatch(r)
    \/ \E r \in DOMAIN req : Handler(r)
    \/ \E r \in DOMAIN req : AfterRequest(r)
    \/ \E r \in DOMAIN req : Return(r)

vars == <<allowed, implemented, boundCtx, req, served, excArgs, excObj, excOut,
          app_routes, mount, related, lastCall, sparse, paginator,
          callerErrors, serialized>>

Spec == Init /\ [][Next]_vars

\* ------------------------------------------------- related resources, served

\* The id_mask of the resource and of its related resource in SpecRelated, the
\* texts the ids have in a request path, and the value Starlette's convertor of
\* the mask puts into request.path_params: int(text) under `int`, else the text.
RelatedIdMask == "int"
IdTexts == {"0", "1"}
Convert(mask, text) ==
    IF mask = "int"
    THEN CASE text = "0" -> "int 0" [] text = "1" -> "int 1"
    ELSE text

\* BaseResource.serialize_related: the route name and the route kwargs of the
\* `self` link, read from request_context. related_id='<id>' is resolved against
\* the object being dumped, whose id is data_id.
serialize_related(request_context, data_id) ==
    LET by_id == /\ request_context["related_id"] # Absent
                 /\ ~Falsy(request_context["related_id"].v)
    IN  [route |-> IF by_id THEN "rel-id" ELSE "rel",
         id |-> request_context["id"].v,
         related_id |-> IF by_id THEN data_id ELSE None]

\* A GET request is matched by one of the two related routes of the resource; the
\* endpoint is functools.partial(cls.handle_request, 'get_related', ...), which
\* works on the request_context dict bound to the route.
ReceiveRelated(r) ==
    /\ req[r].pc = "idle"
    /\ served < MaxRequests
    /\ \E route \in {x \in ResourceRoutes : x.handler_name = "get_related"},
          id \in IdTexts, related_id \in IdTexts :
        /\ route.name # "rel-id" => related_id = id
        /\ LET path_params == [k \in Keys |->
                                 Convert(RelatedIdMask,
                                         IF k = "related_id" THEN related_id ELSE id)]
               ctx0 == boundCtx[route.bound_ctx]
               ctx1 == ExtractParams(ctx0, route.extract_params, path_params, served + 1)
               record == [IdleRequest EXCEPT
                            !.pc = "before", !.serial = served + 1,
                            !.cls = route.cls, !.route = route.name,
                            !.method = "GET", !.handler_name = route.handler_name,
                            !.ctx_ref = route.bound_ctx,
                            !.path_params =
                               [id |-> path_params["id"],
                                related_id |-> IF route.name = "rel-id"
                                               THEN path_params["related_id"]
                                               ELSE None]]
           IN  SetContext(r, ctx1, record)
    /\ served' = served + 1
    /\ UNCHANGED <<allowed, implemented, excVars, regVars, utilVars, docVars>>

\* The resource's get_related: it fetches the related object named by its own
\* related_id argument (or the related object of the parent) and returns
\* to_response(await serialize_related(obj)).
GetRelated(r) ==
    /\ req[r].pc = "handler"
    /\ req[r].handler_name = "get_related"
    /\ LET data_id == IF req[r].path_params.related_id # None
                      THEN req[r].path_params.related_id
                      ELSE "int 1"
           link == serialize_related(ContextOf(r), data_id)
       IN  req' = [req EXCEPT ![r] =
                     [req[r] EXCEPT !.handler_calls = @ + 1,
                                    !.self_link = link,
                                    !.response = HandlerOk,
                                    !.handler_response = HandlerOk,
                                    !.pc = "after"]]
    /\ UNCHANGED <<allowed, implemented, boundCtx, served, excVars, regVars, utilVars, docVars>>

\* Two tasks serve requests at the same time: each await of handle_request lets
\* the other task run.
InitRelated ==
    /\ allowed = [c \in Classes |-> DefaultAllowedMethods]
    /\ implemented = [c \in Classes |-> {"get_related"}]
    /\ boundCtx = [c \in BoundCtxs |-> Update(EmptyDict, "relationship", Relationship, 0)]
    /\ req = [r \in {1, 2} |-> IdleRequest]
    /\ served = 0
    /\ excArgs = NoArgs
    /\ excObj = OtherException("none", "none")
    /\ excOut = NoResponse
    /\ NothingRegistered
    /\ sparse = NoSparse
    /\ paginator = NoPaginator
    /\ callerErrors = NoList
    /\ serialized = NotSerialized

NextRelated ==
    \/ \E r \in DOMAIN req : ReceiveRelated(r)
    \/ \E r \in DOMAIN req : BeforeRequest(r)
    \/ \E r \in DOMAIN req : Dispatch(r)
    \/ \E r \in DOMAIN req : GetRelated(r)
    \/ \E r \in DOMAIN req : AfterRequest(r)
    \/ \E r \in DOMAIN req : Return(r)

SpecRelated == InitRelated /\ [][NextRelated]_vars

\* ------------------------------------------- exceptions and their serialization

Details == {"foo", "final"}

SuppliedErrors == {ErrorObject("foo"), ErrorObject("bar")}

\* An exception is constructed from its arguments, as user code or the library does:
\* JSONAPIException(status_code, detail, errors), ResourceNotFound(status_code, detail),
\* HTTPException(status_code, detail), or an exception of another type.
Construct ==
    /\ \E class \in {"JSONAPIException", "ResourceNotFound", "HTTPException",
                     "ValueError", "KeyError"},
          status_code \in StatusCodes,
          detail \in Details \cup {NoDetail},
          errors \in SeqsUpTo(SuppliedErrors, MaxErrors) :
        /\ class # "JSONAPIException" => errors = <<>>
        /\ class \in {"ValueError", "KeyError"} => status_code = 500
        /\ excArgs' = [class |-> class, status_code |-> status_code,
                       detail |-> detail, errors |-> errors]
        /\ excObj' = CASE class = "JSONAPIException" ->
                            JSONAPIException(status_code, detail, errors)
                       [] class = "ResourceNotFound" ->
                            ResourceNotFound(status_code, detail)
                       [] class = "HTTPException" ->
                            HTTPException(status_code, detail)
                       [] OTHER -> OtherException(class, detail)
    /\ excOut' = NoResponse
    /\ UNCHANGED <<lifeVars, regVars, utilVars, docVars>>

\* serialize_error(exc) is called on the exception.
SerializeError ==
    /\ excArgs # NoArgs
    /\ excOut = NoResponse
    /\ excOut' = serialize_error(excObj)
    /\ UNCHANGED <<excArgs, excObj, lifeVars, regVars, utilVars, docVars>>

InitErr ==
    /\ allowed = [c \in Classes |-> DefaultAllowedMethods]
    /\ implemented = [c \in Classes |-> {}]
    /\ boundCtx = [c \in BoundCtxs |-> Update(EmptyDict, "relationship", Relationship, 0)]
    /\ req = [r \in Tasks |-> IdleRequest]
    /\ served = 0
    /\ excArgs = NoArgs
    /\ excObj = OtherException("none", "none")
    /\ excOut = NoResponse
    /\ NothingRegistered
    /\ sparse = NoSparse
    /\ paginator = NoPaginator
    /\ callerErrors = NoList
    /\ serialized = NotSerialized

NextErr == Construct \/ SerializeError

SpecErr == InitErr /\ [][NextErr]_vars

\* ------------------------------------------- one list passed as `errors` again

\* JSONAPIException(status_code, detail, errors=L), L being a list object its
\* owner keeps: `errors or []` is L itself unless L is empty (an empty list is
\* falsy and a new list takes its place), so self.errors.append(...) appends to L.
ConstructFromList ==
    /\ callerErrors.passes < MaxPasses
    /\ \E status_code \in StatusCodes, detail \in Details \cup {NoDetail} :
        LET L == callerErrors.now
            exc == JSONAPIException(status_code, detail, L)
        IN  /\ excArgs' = [class |-> "JSONAPIException", status_code |-> status_code,
                           detail |-> detail, errors |-> L]
            /\ excObj' = exc
            /\ callerErrors' = [callerErrors EXCEPT
                                  !.now = IF L # <<>> THEN exc.errors ELSE L,
                                  !.passes = @ + 1]
    /\ excOut' = NoResponse
    /\ UNCHANGED <<lifeVars, regVars, utilVars, serialized>>

\* The owner of the list has filled it with the errors it collected.
InitList ==
    /\ allowed = [c \in Classes |-> DefaultAllowedMethods]
    /\ implemented = [c \in Classes |-> {}]
    /\ boundCtx = [c \in BoundCtxs |-> Update(EmptyDict, "relationship", Relationship, 0)]
    /\ req = [r \in Tasks |-> IdleRequest]
    /\ served = 0
    /\ excArgs = NoArgs
    /\ excObj = OtherException("none", "none")
    /\ excOut = NoResponse
    /\ NothingRegistered
    /\ sparse = NoSparse
    /\ paginator = NoPaginator
    /\ \E L \in SeqsUpTo(SuppliedErrors, MaxErrors) :
          callerErrors = [initial |-> L, now |-> L, passes |-> 0]
    /\ serialized = NotSerialized

NextList == ConstructFromList \/ SerializeError

SpecList == InitList /\ [][NextList]_vars

\* ------------------------------------------------------ route registration

\* getattr(cls, 'mount', None): the mount of the class body, else the one a base
\* class holds; 0 stands for None. The value is the position in app.routes of
\* the Mount object referred to.
RECURSIVE GetMount(_, _)
GetMount(mounts, cls) ==
    IF cls = "BaseResource" THEN 0
    ELSE IF mounts[cls] # 0 THEN mounts[cls]
    ELSE GetMount(mounts, ClassBody(cls).base)

Call(kind, cls, base_path, raised) ==
    [serial |-> lastCall.serial + 1, kind |-> kind, cls |-> cls,
     base_path |-> base_path, raised |-> raised, before |-> app_routes]

MissingTypeOrSchema ==
    "Cannot register a resource without specifying its 'type_' and its 'schema'."
NoIdMask == "AttributeError: 'NoneType' object has no attribute 'id_mask'"
MissingParentType ==
    "Cannot register a relationship resource if the 'parent_resource' does not specify a 'type_'."
ParentNotRegistered == "Parent resource should be registered first."

\* BaseResource.register_routes(app, base_path), called on cls.
BaseResource_register_routes(cls, base_path) ==
    LET type_ == GetAttr(cls, "type_")
        schema == GetAttr(cls, "schema")
        found == FindRelated(get_fields(schema))
        routes == RelatedIdRoutes(cls, found) \o RelatedRoutes(cls, found)
                      \o PrimaryRoutes(cls)
        name == IF Falsy(GetAttr(cls, "register_as")) THEN type_
                ELSE GetAttr(cls, "register_as")
        new == Mount(name, rstrip(base_path) \o <<Lit("/"), Lit(type_)>>, routes)
    IN
    /\ lastCall.serial < MaxCalls
    /\ IF Falsy(type_) \/ Falsy(schema)
       THEN /\ lastCall' = Call("resource", cls, base_path, MissingTypeOrSchema)
            /\ UNCHANGED <<app_routes, mount, related>>
       ELSE IF \E i \in 1..Len(found) : found[i].cls = None
       THEN /\ related' = [related EXCEPT ![cls] = [set |-> TRUE, items |-> found]]
            /\ lastCall' = Call("resource", cls, base_path, NoIdMask)
            /\ UNCHANGED <<app_routes, mount>>
       ELSE /\ related' = [related EXCEPT ![cls] = [set |-> TRUE, items |-> found]]
            /\ app_routes' = AppendMount(app_routes, new)
            /\ mount' = [mount EXCEPT ![cls] = Len(app_routes')]
            /\ lastCall' = Call("resource", cls, base_path, None)
    /\ UNCHANGED <<lifeVars, excVars, utilVars, docVars>>

\* BaseRelationshipResource.register_routes(), called on cls.
BaseRelationshipResource_register_routes(cls) ==
    LET body == RelationshipBody(cls)
        parent_mount == GetMount(mount, body.parent_resource)
    IN
    /\ lastCall.serial < MaxCalls
    /\ IF Falsy(GetAttr(body.parent_resource, "type_"))
       THEN /\ lastCall' = Call("relationship", cls, <<>>, MissingParentType)
            /\ UNCHANGED app_routes
       ELSE IF parent_mount = 0
       THEN /\ lastCall' = Call("relationship", cls, <<>>, ParentNotRegistered)
            /\ UNCHANGED app_routes
       ELSE /\ \E order \in Orders(body.allowed_methods) :
                 app_routes' =
                     [app_routes EXCEPT ![parent_mount].routes =
                         @ \o [i \in 1..Len(order) |-> RelationshipRoute(cls, order[i])]]
            /\ lastCall' = Call("relationship", cls, <<>>, None)
    /\ UNCHANGED <<mount, related, lifeVars, excVars, utilVars, docVars>>

InitReg ==
    /\ allowed = [c \in Classes |-> DefaultAllowedMethods]
    /\ implemented = [c \in Classes |-> {}]
    /\ boundCtx = [c \in BoundCtxs |-> Update(EmptyDict, "relationship", Relationship, 0)]
    /\ req = [r \in Tasks |-> IdleRequest]
    /\ served = 0
    /\ excArgs = NoArgs
    /\ excObj = OtherException("none", "none")
    /\ excOut = NoResponse
    /\ NothingRegistered
    /\ sparse = NoSparse
    /\ paginator = NoPaginator
    /\ callerErrors = NoList
    /\ serialized = NotSerialized

NextReg ==
    \/ \E cls \in ResourceClasses, base_path \in BasePaths :
          BaseResource_register_routes(cls, base_path)
    \/ \E cls \in RelationshipClasses : BaseRelationshipResource_register_routes(cls)

SpecReg == InitReg /\ [][NextReg]_vars

\* ----------------------------------------------------------- sparse fieldsets

\* Python dicts are functions from their keys; these are the dict operations the
\* helpers use.
EmptyMapping == [key \in {} |-> 0]
Has(dict, key) == key \in DOMAIN dict
Del(dict, key) == [k \in DOMAIN dict \ {key} |-> dict[k]]
Set(dict, key, value) == [k \in DOMAIN dict \cup {key} |-> IF k = key THEN value ELSE dict[k]]
Restrict(dict, keys) == [k \in DOMAIN dict \cap keys |-> dict[k]]
Range(seq) == { seq[i] : i \in DOMAIN seq }

\* A filter that keeps the blocks it has emptied, as {} (mutant).
filter_sparse_fields_KeepEmpty(item, sparse_fields) ==
    LET filtered(new_item, block) ==
            IF Has(new_item, block) /\ DOMAIN new_item[block] # {}
            THEN Set(new_item, block, Restrict(new_item[block], Range(sparse_fields)))
            ELSE new_item
    IN filtered(filtered(item, "attributes"), "relationships")

\* filter_sparse_fields(item, sparse_fields): works on copies of the item and of
\* its blocks; a block that is absent or empty is left as it is.
filter_sparse_fields(item, sparse_fields) ==
    LET filtered(new_item, block) ==
            IF Has(new_item, block) /\ DOMAIN new_item[block] # {}
            THEN LET new_block == Restrict(new_item[block], Range(sparse_fields)) IN
                 IF DOMAIN new_block # {}
                 THEN Set(new_item, block, new_block)
                 ELSE Del(new_item, block)
            ELSE new_item
    IN filtered(filtered(item, "attributes"), "relationships")

\* The `data: null` of a document.
NoneData == [null |-> TRUE]

\* not serialized_data.get('data'): no data key, None, or an empty list.
DataFalsy(serialized_data, many) ==
    \/ ~Has(serialized_data, "data")
    \/ many /\ serialized_data.data = <<>>
    \/ ~many /\ serialized_data.data = NoneData

\* One resource object, filtered if the mapping names its type.
FilterItem(item, sparse_fields) ==
    IF Has(sparse_fields, item.type)
    THEN filter_sparse_fields(item, sparse_fields[item.type])
    ELSE item

\* A processing that leaves `included` as it is (mutant).
process_sparse_fields_DataOnly(serialized_data, many, sparse_fields) ==
    IF DOMAIN sparse_fields = {} \/ DataFalsy(serialized_data, many)
    THEN serialized_data
    ELSE LET data == serialized_data.data
             new_data == IF many
                         THEN [i \in DOMAIN data |-> FilterItem(data[i], sparse_fields)]
                         ELSE FilterItem(data, sparse_fields)
         IN Set(serialized_data, "data", new_data)

\* process_sparse_fields(serialized_data, many, sparse_fields)
process_sparse_fields(serialized_data, many, sparse_fields) ==
    IF DOMAIN sparse_fields = {} \/ DataFalsy(serialized_data, many)
    THEN serialized_data
    ELSE LET data == serialized_data.data
             new_data == IF many
                         THEN [i \in DOMAIN data |-> FilterItem(data[i], sparse_fields)]
                         ELSE FilterItem(data, sparse_fields)
             included == IF Has(serialized_data, "included")
                         THEN serialized_data.included ELSE <<>>
             new_included == [i \in DOMAIN included |->
                                 FilterItem(included[i], sparse_fields)]
             new_serialized_data == Set(serialized_data, "data", new_data)
         IN IF new_included # <<>>
            THEN Set(new_serialized_data, "included", new_included)
            ELSE new_serialized_data

\* A resource object as the schema dumps it: id, type, and the attributes and
\* relationships blocks, each present only when it has a member.
ResourceObject(type, id, attributes, relationships) ==
    LET core == [k \in {"id", "type"} |-> IF k = "id" THEN id ELSE type]
        with_attributes ==
            IF attributes = {} THEN core
            ELSE Set(core, "attributes", [name \in attributes |-> "value"])
    IN IF relationships = {} THEN with_attributes
       ELSE Set(with_attributes, "relationships",
                [name \in relationships |-> [data |-> [type |-> "people", id |-> "9"]]])

\* The resource objects of the documents processed in this model.
ResourceObjects ==
    { ResourceObject("articles", "1", attributes, relationships) :
        attributes \in {{"title"}, {"title", "body"}},
        relationships \in {{}, {"author"}} }
    \cup { ResourceObject("people", "9", attributes, {}) : attributes \in {{}, {"name"}} }

\* The top-level members next to data and included.
TopLevel ==
    [k \in {"meta", "links"} |->
        IF k = "meta" THEN [count |-> "2"] ELSE [self |-> "/articles/"]]

\* The serialized documents with the primary data given, with nothing included
\* or one resource object included; a document without primary data has
\* nothing included.
Documents(primary, many) ==
    LET plain == { Set(TopLevel, "data", data) : data \in primary } IN
    plain \cup { Set(document, "included", <<item>>) :
                    document \in { d \in plain : ~DataFalsy(d, many) },
                    item \in ResourceObjects }

\* serialize(data, many=False): one resource object, or null.
SingleDocuments == Documents(ResourceObjects \cup {NoneData}, FALSE)

\* serialize(data, many=True): a list of resource objects.
ListDocuments == Documents(SeqsUpTo(ResourceObjects, MaxItems), TRUE)

\* The mappings parse_sparse_fields_params hands over: {} when the request has no
\* fields parameter.
SparseFields ==
    { Restrict([type \in {"articles", "people"} |->
                    IF type = "articles" THEN for_articles ELSE <<"name">>], types) :
        for_articles \in { <<"title">>, <<"title", "author">>, <<"non-existent">> },
        types \in SUBSET {"articles", "people"} }

\* Query parameter names are sequences of pieces, values are sequences of
\* characters, so that startswith, endswith, index, slicing and split have
\* something to work on.
FieldsParam(type) == <<"fields", "[", type, "]">>
ParamNames == { FieldsParam("articles"), FieldsParam("people"), <<"fields", "[", "]">>,
                <<"include">> }
ParamValues == SeqsUpTo({"a", "b", ","}, MaxValueLen)

\* request.query_params: one parameter, or two of different names, the second
\* with no value or with the single field b.
QueryParams ==
    LET params == [name : ParamNames, value : ParamValues]
        seconds == [name : ParamNames, value : {<<>>, <<"b">>}]
    IN { <<param>> : param \in params }
       \cup { pair \in { <<first, second>> : first \in params, second \in seconds } :
                  pair[1].name # pair[2].name }

\* str.index(piece): the first position of the piece.
Index(name, piece) ==
    CHOOSE i \in DOMAIN name : name[i] = piece /\ \A j \in 1..(i - 1) : name[j] # piece

\* str.split(','): the stretches between the commas, empty ones included.
RECURSIVE split(_)
split(value) ==
    IF \A i \in DOMAIN value : value[i] # ","
    THEN << value >>
    ELSE LET comma == Index(value, ",") IN
         << SubSeq(value, 1, comma - 1) >> \o split(SubSeq(value, comma + 1, Len(value)))

\* qp_name.startswith('fields[') and qp_name.endswith(']')
IsFieldsParam(qp_name) ==
    /\ Len(qp_name) >= 2 /\ qp_name[1] = "fields" /\ qp_name[2] = "["
    /\ qp_name[Len(qp_name)] = "]"

\* qp_name[qp_name.index('[') + 1 : qp_name.index(']')]
ResourceName(qp_name) == SubSeq(qp_name, Index(qp_name, "[") + 1, Index(qp_name, "]") - 1)

\* A check that only rejects values all of whose fields are empty (mutant).
Malformed_AllEmpty(resource_name, qp_value) ==
    \/ resource_name = <<>>
    \/ qp_value = <<>>
    \/ \A i \in DOMAIN split(qp_value) : split(qp_value)[i] = <<>>

\* not resource_name or not qp_value or not all(qp_value.split(','))
Malformed(resource_name, qp_value) ==
    \/ resource_name = <<>>
    \/ qp_value = <<>>
    \/ \E i \in DOMAIN split(qp_value) : split(qp_value)[i] = <<>>

IncorrectSparseFields == "Incorrect sparse fields request."

\* parse_sparse_fields_params(request), on what is left of the query parameters,
\* with the dict filled so far.
RECURSIVE ParseFrom(_, _)
ParseFrom(query_params, sparse_fields) ==
    IF query_params = <<>>
    THEN [raised |-> FALSE, exc |-> OtherException("none", "none"),
          sparse_fields |-> sparse_fields]
    ELSE LET qp_name == Head(query_params).name
             qp_value == Head(query_params).value
         IN IF ~IsFieldsParam(qp_name)
            THEN ParseFrom(Tail(query_params), sparse_fields)
            ELSE IF Malformed(ResourceName(qp_name), qp_value)
            THEN [raised |-> TRUE,
                  exc |-> JSONAPIException(400, IncorrectSparseFields, <<>>),
                  sparse_fields |-> EmptyMapping]
            ELSE ParseFrom(Tail(query_params),
                           Set(sparse_fields, ResourceName(qp_name), split(qp_value)))

parse_sparse_fields_params(query_params) == ParseFrom(query_params, EmptyMapping)

\* process_sparse_fields is applied to a serialized document, then to its own
\* result. The helper builds its result from copies: the document handed in is
\* the same after the call.
ProcessSparseFields ==
    /\ sparse.op = "process"
    /\ sparse.calls < 2
    /\ sparse' =
         IF sparse.calls = 0
         THEN [sparse EXCEPT !.calls = 1,
                  !.once = process_sparse_fields(sparse.serialized_data, sparse.many,
                                                 sparse.sparse_fields)]
         ELSE [sparse EXCEPT !.calls = 2,
                  !.twice = process_sparse_fields(sparse.once, sparse.many,
                                                  sparse.sparse_fields)]
    /\ UNCHANGED <<lifeVars, excVars, regVars, paginator, docVars>>

\* parse_sparse_fields_params is applied to the query parameters of a request.
ParseSparseFieldsParams ==
    /\ sparse.op = "parse"
    /\ ~sparse.parsed
    /\ sparse' = [sparse EXCEPT !.parsed = TRUE,
                     !.result = parse_sparse_fields_params(sparse.query_params)]
    /\ UNCHANGED <<lifeVars, excVars, regVars, paginator, docVars>>

InitSparse ==
    /\ allowed = [c \in Classes |-> DefaultAllowedMethods]
    /\ implemented = [c \in Classes |-> {}]
    /\ boundCtx = [c \in BoundCtxs |-> Update(EmptyDict, "relationship", Relationship, 0)]
    /\ req = [r \in Tasks |-> IdleRequest]
    /\ served = 0
    /\ excArgs = NoArgs
    /\ excObj = OtherException("none", "none")
    /\ excOut = NoResponse
    /\ NothingRegistered
    /\ paginator = NoPaginator
    /\ callerErrors = NoList
    /\ serialized = NotSerialized
    /\ \/ \E many \in BOOLEAN, sparse_fields \in SparseFields :
             \E document \in IF many THEN ListDocuments ELSE SingleDocuments :
                sparse = [op |-> "process", many |-> many, given |-> document,
                          serialized_data |-> document,
                          sparse_fields |-> sparse_fields, calls |-> 0,
                          once |-> EmptyMapping, twice |-> EmptyMapping]
       \/ \E query_params \in QueryParams :
             sparse = [op |-> "parse", query_params |-> query_params, parsed |-> FALSE,
                       result |-> ParseFrom(<<>>, EmptyMapping)]

NextSparse == ProcessSparseFields \/ ParseSparseFieldsParams

SpecSparse == InitSparse /\ [][NextSparse]_vars

\* ----------------------------------------------------------------- pagination

\* The characters of the page parameters' values, and the values: one or two
\* characters, so 0..22, -0..-2 and texts that are no number.
PageChars == {"-", "0", "1", "2", "x"}
PageTexts == { <<c>> : c \in PageChars } \cup { <<c, d>> : c \in PageChars, d \in PageChars }

\* request.query_params.get(param, default): the text given, or the default.
Given(text) == [given |-> TRUE, text |-> text]
NotGiven == [given |-> FALSE, text |-> <<>>]
RawValues == { Given(text) : text \in PageTexts } \cup {NotGiven}

DigitValue(char) ==
    CASE char = "0" -> 0 [] char = "1" -> 1 [] char = "2" -> 2

IsDigits(text) == text # <<>> /\ \A i \in DOMAIN text : text[i] \in {"0", "1", "2"}

RECURSIVE DigitsValue(_)
DigitsValue(text) ==
    IF text = <<>> THEN 0
    ELSE 10 * DigitsValue(SubSeq(text, 1, Len(text) - 1)) + DigitValue(text[Len(text)])

\* int(text): the number a text of digits with an optional sign stands for, or a
\* ValueError.
int(text) ==
    IF IsDigits(text)
    THEN [ok |-> TRUE, value |-> DigitsValue(text)]
    ELSE IF text # <<>> /\ text[1] = "-" /\ IsDigits(Tail(text))
    THEN [ok |-> TRUE, value |-> 0 - DigitsValue(Tail(text))]
    ELSE [ok |-> FALSE, value |-> 0]

\* int(request.query_params.get(param, default)); the defaults are numbers already.
IntOf(raw, default) == IF raw.given THEN int(raw.text) ELSE [ok |-> TRUE, value |-> default]

Min(a, b) == IF a <= b THEN a ELSE b

InvalidLiteral == "ValueError: invalid literal for int() with base 10"

Strategies == {"page-number", "offset", "cursor"}

\* A paginator as __init__ leaves it before process_query_params runs:
\* default_page_number is 1, default_page_offset 0, default_page_after 0 and
\* default_page_before None.
NewPaginator(strategy, query, default_page_size) ==
    [strategy |-> strategy, query |-> query,
     default_page_size |-> default_page_size, max_page_size |-> MaxPageSize,
     page_size |-> default_page_size,
     page_number |-> 1, page_offset |-> 0, page_after |-> NotGiven, page_before |-> NotGiven,
     pc |-> "new", raised |-> FALSE, exc |-> OtherException("none", "none"),
     response |-> NoResponse]

ValueError(self) ==
    [self EXCEPT !.pc = "constructed", !.raised = TRUE,
                 !.exc = OtherException("ValueError", InvalidLiteral)]

\* BasePageNumberPagination.process_query_params
PageNumber_process_query_params(self) ==
    LET page_size == IntOf(self.query.size, self.default_page_size)
        page_number == IntOf(self.query.number, 1)
    IN IF ~page_size.ok \/ ~page_number.ok THEN ValueError(self)
       ELSE [self EXCEPT !.pc = "constructed",
                !.page_size = Min(page_size.value, self.max_page_size),
                !.page_number = IF page_number.value < 0 THEN 1 ELSE page_number.value]

\* BaseOffsetPagination.process_query_params
Offset_process_query_params(self) ==
    LET page_size == IntOf(self.query.size, self.default_page_size)
        page_offset == IntOf(self.query.offset, 0)
    IN IF ~page_size.ok \/ ~page_offset.ok THEN ValueError(self)
       ELSE [self EXCEPT !.pc = "constructed",
                !.page_size = Min(page_size.value, self.max_page_size),
                !.page_offset = IF page_offset.value < 0 THEN 0 ELSE page_offset.value]

\* BaseCursorPagination.process_query_params
Cursor_process_query_params(self) ==
    LET page_size == IntOf(self.query.size, self.default_page_size)
    IN IF ~page_size.ok THEN ValueError(self)
       ELSE [self EXCEPT !.pc = "constructed",
                !.page_size = Min(page_size.value, self.max_page_size),
                !.page_after = self.query.after,
                !.page_before = self.query.before]

\* The query parameters of a request, per strategy.
Queries(strategy) ==
    [size : RawValues,
     number : IF strategy = "page-number" THEN RawValues ELSE {NotGiven},
     offset : IF strategy = "offset" THEN RawValues ELSE {NotGiven},
     after : IF strategy = "cursor" THEN {NotGiven, Given(<<"2">>)} ELSE {NotGiven},
     before : IF strategy = "cursor" THEN {NotGiven, Given(<<"x">>)} ELSE {NotGiven}]

\* paginate_request constructs the paginator of the resource's pagination_class,
\* whose __init__ runs process_query_params.
PaginateRequest ==
    /\ paginator.strategy # "none"
    /\ paginator.pc = "new"
    /\ paginator' =
         CASE paginator.strategy = "page-number" -> PageNumber_process_query_params(paginator)
           [] paginator.strategy = "offset" -> Offset_process_query_params(paginator)
           [] paginator.strategy = "cursor" -> Cursor_process_query_params(paginator)
    /\ UNCHANGED <<lifeVars, excVars, regVars, sparse, docVars>>

\* The request whose handler called serialize(..., paginate=True) is answered:
\* an exception of the paginator goes through handle_error.
PaginatedResponse ==
    /\ paginator.strategy # "none"
    /\ paginator.pc = "constructed"
    /\ paginator' =
         [paginator EXCEPT !.pc = "responded",
             !.response = IF paginator.raised THEN handle_error(paginator.exc)
                          ELSE HandlerOk]
    /\ UNCHANGED <<lifeVars, excVars, regVars, sparse, docVars>>

InitPage ==
    /\ allowed = [c \in Classes |-> DefaultAllowedMethods]
    /\ implemented = [c \in Classes |-> {}]
    /\ boundCtx = [c \in BoundCtxs |-> Update(EmptyDict, "relationship", Relationship, 0)]
    /\ req = [r \in Tasks |-> IdleRequest]
    /\ served = 0
    /\ excArgs = NoArgs
    /\ excObj = OtherException("none", "none")
    /\ excOut = NoResponse
    /\ NothingRegistered
    /\ sparse = NoSparse
    /\ callerErrors = NoList
    /\ serialized = NotSerialized
    /\ \E strategy \in Strategies, default_page_size \in 1..(MaxPageSize + 1) :
          \E query \in Queries(strategy) :
             paginator = NewPaginator(strategy, query, default_page_size)

NextPage == PaginateRequest \/ PaginatedResponse

SpecPage == InitPage /\ [][NextPage]_vars

\* ------------------------------------------------------------- serialization

\* seq[start:stop]: a negative position counts from the end, a position beyond
\* an end is that end.
Slice(seq, start, stop) ==
    LET n == Len(seq)
        clamp(i) == IF i < 0 THEN (IF i + n < 0 THEN 0 ELSE i + n)
                    ELSE IF i > n THEN n ELSE i
    IN  IF clamp(start) < clamp(stop)
        THEN SubSeq(seq, clamp(start) + 1, clamp(stop))
        ELSE <<>>

\* math.ceil(n / d), for n >= 0 and d # 0
ceil(n, d) == IF d > 0 THEN (n + d - 1) \div d ELSE 0 - (n \div (0 - d))

\* BasePagination.get_pagination with the slice_data and the
\* generate_pagination_links of the page-number paginator TPagination: the page,
\* and the four links, each the page number and the page size of its query.
get_pagination(self, data) ==
    LET S == self.page_size
        P == self.page_number
        link(page_number) == [page_number |-> page_number, page_size |-> S]
        page_count == ceil(Len(data), S)
    IN  IF S = 0
        THEN [raised |-> TRUE,
              exc |-> OtherException("ZeroDivisionError", "division by zero"),
              data |-> <<>>, links |-> EmptyMapping]
        ELSE [raised |-> FALSE, exc |-> OtherException("none", "none"),
              data |-> Slice(data, (P - 1) * S, P * S),
              links |-> [first |-> link(1),
                         last |-> link(page_count),
                         next |-> IF P < page_count THEN link(P + 1) ELSE NoneData,
                         prev |-> IF P > 1 THEN link(P - 1) ELSE NoneData]]

\* parse_included_params(request): the set of the relation paths of the include
\* parameter; None (here the empty set, as falsy) without the parameter or with
\* an empty one.
parse_included_params(include) ==
    IF include.given /\ include.text # <<>> THEN Range(split(include.text)) ELSE {}

\* A _prepare_included that goes through all the data handed to serialize (mutant).
prepare_included_AllData(self) ==
    IF self.many THEN self.data ELSE <<self.data[1]>>

\* BaseResource._prepare_included: the objects include_relations is awaited for,
\* `data` being the page by now.
prepare_included(self) ==
    IF self.many THEN self.page ELSE <<self.page[1]>>

\* schema.dump(data, many): the resource objects of the items, and the top-level
\* links of get_top_level_links when the schema's Meta names a route for them.
dump(items, many, self_route) ==
    LET objects == [i \in DOMAIN items |->
                       ResourceObject("articles", items[i], {"title", "body"}, {})]
        document == Set(EmptyMapping, "data", IF many THEN objects ELSE objects[1])
    IN  IF self_route
        THEN Set(document, "links", [self |-> [route |-> "articles:self"]])
        ELSE document

\* The items a handler hands to serialize, the include parameters and the page
\* parameters of the requests.
Items == <<"1", "2", "3", "4", "5", "6">>
IncludeParams ==
    {NotGiven, Given(<<>>), Given(<<"a">>), Given(<<"a", ",", "a">>),
     Given(<<"a", ",", "b">>)}
PageQueries ==
    [size : {NotGiven, Given(<<"0">>), Given(<<"1">>), Given(<<"2">>)},
     number : {NotGiven, Given(<<"0">>), Given(<<"1">>), Given(<<"2">>), Given(<<"x">>)},
     offset : {NotGiven}, after : {NotGiven}, before : {NotGiven}]

\* links = None; if paginate: data, links = await self.paginate_request(data, ...)
\* (None and {} are both falsy: EmptyMapping stands for either).
SlicePage ==
    /\ serialized.op = "serialize"
    /\ serialized.pc = "paginate"
    /\ serialized' =
         IF ~serialized.paginate
         THEN [serialized EXCEPT !.pc = "prepare"]
         ELSE LET self == PageNumber_process_query_params(serialized.paginator)
                  pagination == get_pagination(self, serialized.data)
              IN  IF self.raised
                  THEN [serialized EXCEPT !.pc = "raised", !.exc = self.exc,
                                          !.paginator = self]
                  ELSE IF pagination.raised
                  THEN [serialized EXCEPT !.pc = "raised", !.exc = pagination.exc,
                                          !.paginator = self]
                  ELSE [serialized EXCEPT !.pc = "prepare", !.paginator = self,
                                          !.page = pagination.data,
                                          !.links = pagination.links,
                                          !.steps = Append(@, "paginate")]
    /\ UNCHANGED <<lifeVars, excVars, regVars, utilVars, callerErrors>>

\* _prepare_included up to its first await: the include parameter is parsed and,
\* unless it is empty, turned into a list (a set has no order: any order).
PrepareIncluded ==
    /\ serialized.op = "serialize"
    /\ serialized.pc = "prepare"
    /\ LET include_param == parse_included_params(serialized.include)
           pending == prepare_included(serialized)
       IN  IF include_param = {}
           THEN serialized' = [serialized EXCEPT !.pc = "dump"]
           ELSE \E include_param_list \in Orders(include_param) :
                   serialized' = [serialized EXCEPT
                                     !.relations = include_param_list,
                                     !.pending = pending,
                                     !.pc = IF pending = <<>> THEN "dump" ELSE "include"]
    /\ UNCHANGED <<lifeVars, excVars, regVars, utilVars, callerErrors>>

\* await self.include_relations(obj=item, relations=include_param_list): the
\* default raises the 400, an override loads the relations of the object.
IncludeRelations ==
    /\ serialized.op = "serialize"
    /\ serialized.pc = "include"
    /\ serialized' =
         IF ~serialized.overrides
         THEN [serialized EXCEPT !.pc = "raised",
                                 !.exc = JSONAPIException(400, NoDetail, <<>>),
                                 !.steps = Append(@, "include")]
         ELSE [serialized EXCEPT
                  !.calls = Append(@, [obj |-> Head(serialized.pending),
                                       relations |-> serialized.relations]),
                  !.pending = Tail(@),
                  !.steps = Append(@, "include"),
                  !.pc = IF Tail(serialized.pending) = <<>> THEN "dump" ELSE "include"]
    /\ UNCHANGED <<lifeVars, excVars, regVars, utilVars, callerErrors>>

\* The rest of serialize: the schema is constructed and dumps the data, the
\* sparse fieldsets are applied, the pagination links are put into the document.
DumpAndReturn ==
    /\ serialized.op = "serialize"
    /\ serialized.pc = "dump"
    /\ LET body == dump(IF serialized.many THEN serialized.page
                        ELSE <<serialized.page[1]>>,
                        serialized.many, serialized.self_route)
           sparse_body == process_sparse_fields(body, serialized.many,
                                                serialized.sparse_fields)
           links == serialized.links
       IN  serialized' = [serialized EXCEPT
              !.body = body,
              !.output = IF DOMAIN links # {} THEN Set(sparse_body, "links", links)
                         ELSE sparse_body,
              !.steps = @ \o <<"dump", "sparse">>
                          \o (IF DOMAIN links # {} THEN <<"links">> ELSE <<>>),
              !.pc = "returned"]
    /\ UNCHANGED <<lifeVars, excVars, regVars, utilVars, callerErrors>>

\* The handler returns to_response(document); an exception of serialize leaves
\* the handler and handle_request answers with handle_error.
RespondSerialized ==
    /\ serialized.op = "serialize"
    /\ serialized.pc \in {"returned", "raised"}
    /\ serialized' = [serialized EXCEPT
          !.pc = "responded",
          !.response = IF serialized.pc = "raised" THEN handle_error(serialized.exc)
                       ELSE JSONAPIResponse(200, serialized.output)]
    /\ UNCHANGED <<lifeVars, excVars, regVars, utilVars, callerErrors>>

\* A handler calls serialize: get_many with many=True (and paginate=True when it
\* paginates), get with many=False.
InitSer ==
    /\ allowed = [c \in Classes |-> DefaultAllowedMethods]
    /\ implemented = [c \in Classes |-> {}]
    /\ boundCtx = [c \in BoundCtxs |-> Update(EmptyDict, "relationship", Relationship, 0)]
    /\ req = [r \in Tasks |-> IdleRequest]
    /\ served = 0
    /\ excArgs = NoArgs
    /\ excObj = OtherException("none", "none")
    /\ excOut = NoResponse
    /\ NothingRegistered
    /\ sparse = NoSparse
    /\ paginator = NoPaginator
    /\ callerErrors = NoList
    /\ \E many \in BOOLEAN, paginate \in BOOLEAN, n \in 0..(2 * MaxItems),
          include \in IncludeParams, overrides \in BOOLEAN, self_route \in BOOLEAN,
          sparse_fields \in {EmptyMapping, Set(EmptyMapping, "articles", <<"title">>)},
          query \in PageQueries :
        /\ n <= Len(Items)
        /\ ~many => n = 1 /\ ~paginate
        /\ ~paginate => query = [size |-> NotGiven, number |-> NotGiven,
                                 offset |-> NotGiven, after |-> NotGiven,
                                 before |-> NotGiven]
        /\ serialized =
             [op |-> "serialize", data |-> SubSeq(Items, 1, n), many |-> many,
              paginate |-> paginate, include |-> include, overrides |-> overrides,
              self_route |-> self_route, sparse_fields |-> sparse_fields,
              paginator |-> NewPaginator("page-number", query, 2),
              pc |-> "paginate", page |-> SubSeq(Items, 1, n), links |-> EmptyMapping,
              relations |-> <<>>, pending |-> <<>>, calls |-> <<>>, steps |-> <<>>,
              body |-> EmptyMapping, output |-> EmptyMapping,
              exc |-> OtherException("none", "none"), response |-> NoResponse]

NextSer ==
    SlicePage \/ PrepareIncluded \/ IncludeRelations \/ DumpAndReturn \/ RespondSerialized

SpecSer == InitSer /\ [][NextSer]_vars

\* ------------------------------------------------ links and relationships

\* The route at a position of app.routes: mount and route within the mount.
RouteAt(pos) == app_routes[pos[1]].routes[pos[2]]

\* The path parameters a route expects.
PathParams(path) == { path[i].text : i \in { j \in DOMAIN path : path[j].param } }

NoMatch == << Lit("NoMatch") >>

\* app.url_path_for(name, **params): the first mount of that name holding a route
\* of that name which expects exactly these parameters gives the path.
url_path_for(name, params) ==
    LET hits == { pos \in UNION { {i} \X DOMAIN app_routes[i].routes :
                                      i \in DOMAIN app_routes } :
                    /\ app_routes[pos[1]].name = name.mount
                    /\ RouteAt(pos).name = name.route
                    /\ PathParams(RouteAt(pos).path) = params }
        first == CHOOSE pos \in hits :
                    \A other \in hits :
                        \/ pos[1] < other[1]
                        \/ pos[1] = other[1] /\ pos[2] <= other[2]
    IN IF hits = {} THEN NoMatch
       ELSE rstrip(app_routes[first[1]].path) \o RouteAt(first).path


\* No route name (None, or the empty string); the exception of app.url_path_for.
NoRoute == [mount |-> "", route |-> <<>>, kwargs |-> {}]
NoMatchFound == OtherException("NoMatchFound", "No route exists for this name and these params.")

\* A get_url that resolves whenever it has a route name (mutant): without an app,
\* prefix_url_path fails on it.
get_url_NoAppCheck(app, route_name) ==
    IF route_name # NoRoute
    THEN LET path == url_path_for(route_name, route_name.kwargs) IN
         IF ~app \/ path = NoMatch THEN [raised |-> TRUE, url |-> <<>>]
         ELSE [raised |-> FALSE, url |-> path]
    ELSE [raised |-> FALSE, url |-> <<>>]

\* JSONAPIRelationship.get_url and JSONAPISchema.generate_url: None (the empty
\* path) without a route name or without an app; else prefix_url_path, the path
\* app.url_path_for gives or its NoMatchFound.
get_url(app, route_name) ==
    IF route_name # NoRoute /\ app
    THEN LET path == url_path_for(route_name, route_name.kwargs) IN
         IF path = NoMatch THEN [raised |-> TRUE, url |-> <<>>]
         ELSE [raised |-> FALSE, url |-> path]
    ELSE [raised |-> FALSE, url |-> <<>>]

\* JSONAPIRelationship.__init__: include_resource_linkage is what was passed, or
\* the default kwargs.setdefault gives it.
RelationshipField(id_attribute, related_route, self_route, passed) ==
    [id_attribute |-> id_attribute, related_route |-> related_route,
     self_route |-> self_route, passed |-> passed,
     include_resource_linkage |-> IF passed = Unset THEN "True" ELSE passed]

\* JSONAPIRelationship.serialize, with the _serialize of marshmallow-jsonapi's
\* Relationship: the links that resolve, and the resource linkage when it is
\* asked for or the relationship is included.
Relationship_serialize(field, include_data, app, obj) ==
    LET self_url == get_url(app, field.self_route)
        related_url == get_url(app, field.related_route)
        with_self == IF self_url.url # <<>>
                     THEN Set(EmptyMapping, "self", self_url.url) ELSE EmptyMapping
        links == IF related_url.url # <<>>
                 THEN Set(with_self, "related", related_url.url) ELSE with_self
        with_links == IF DOMAIN links # {}
                      THEN Set(EmptyMapping, "links", links) ELSE EmptyMapping
        id == IF ~include_data /\ field.id_attribute # None
              THEN obj[field.id_attribute] ELSE obj.author
    IN  [raised |-> self_url.raised \/ related_url.raised,
         value |-> IF field.include_resource_linkage = "True" \/ include_data
                   THEN Set(with_links, "data", [type |-> "people", id |-> id])
                   ELSE with_links]

\* schema.dump(obj) of a schema with one relationship field, `author`:
\* format_item puts the relationship under `relationships` when its value is not
\* empty, and get_resource_links the `self` link under `links` when there is one.
Schema_dump(self, obj) ==
    LET author == Relationship_serialize(self.author, self.include_data, self.app, obj)
        self_link == get_url(self.app, self.self_route)
        core == [k \in {"id", "type"} |-> IF k = "id" THEN obj.id ELSE "articles"]
        with_relationships ==
            IF DOMAIN author.value # {}
            THEN Set(core, "relationships", Set(EmptyMapping, "author", author.value))
            ELSE core
    IN  IF author.raised \/ self_link.raised
        THEN [raised |-> TRUE, exc |-> NoMatchFound, data |-> EmptyMapping]
        ELSE [raised |-> FALSE, exc |-> OtherException("none", "none"),
              data |-> IF self_link.url # <<>>
                       THEN Set(with_relationships, "links",
                                Set(EmptyMapping, "self", self_link.url))
                       ELSE with_relationships]

\* The routes the schemas of this model name, with their kwargs.
ArticleRoutes ==
    [get |-> [mount |-> "articles", route |-> <<"get">>, kwargs |-> {"id"}],
     author |-> [mount |-> "articles", route |-> <<"author">>, kwargs |-> {"id"}],
     relationship |-> [mount |-> "articles", route |-> <<"relationships-", "author">>,
                       kwargs |-> {"parent_id"}]]

\* The object dumped: an article, its loaded author and its author_id attribute.
Article == [id |-> "1", author |-> "9", author_id |-> "7"]

\* schema.dump(article) against the routes registered by then.
DumpSchema ==
    /\ serialized.op = "dump"
    /\ serialized.pc = "constructed"
    /\ serialized' = [serialized EXCEPT !.pc = "dumped",
                                        !.routes = app_routes,
                                        !.result = Schema_dump(serialized, Article)]
    /\ UNCHANGED <<lifeVars, excVars, regVars, utilVars, callerErrors>>

\* A schema is constructed, with or without an app; the application registers its
\* resources at some time.
InitDump ==
    /\ allowed = [c \in Classes |-> DefaultAllowedMethods]
    /\ implemented = [c \in Classes |-> {}]
    /\ boundCtx = [c \in BoundCtxs |-> Update(EmptyDict, "relationship", Relationship, 0)]
    /\ req = [r \in Tasks |-> IdleRequest]
    /\ served = 0
    /\ excArgs = NoArgs
    /\ excObj = OtherException("none", "none")
    /\ excOut = NoResponse
    /\ NothingRegistered
    /\ sparse = NoSparse
    /\ paginator = NoPaginator
    /\ callerErrors = NoList
    /\ \E app \in BOOLEAN, include_data \in BOOLEAN,
          self_route \in {NoRoute, ArticleRoutes.get},
          id_attribute \in {None, "author_id"},
          related_route \in {NoRoute, ArticleRoutes.author},
          relationship_route \in {NoRoute, ArticleRoutes.relationship},
          passed \in {Unset, "True", "False"} :
        serialized =
            [op |-> "dump", pc |-> "constructed", app |-> app,
             include_data |-> include_data, self_route |-> self_route,
             author |-> RelationshipField(id_attribute, related_route,
                                          relationship_route, passed),
             routes |-> <<>>,
             result |-> [raised |-> FALSE, exc |-> OtherException("none", "none"),
                         data |-> EmptyMapping]]

NextDump ==
    \/ BaseResource_register_routes("ArticlesResource", <<>>)
    \/ BaseRelationshipResource_register_routes("ArticlesAuthorRelationship")
    \/ DumpSchema

SpecDump == InitDump /\ [][NextDump]_vars

\* ------------------------------------------------------------------ properties

InFlight(r) == req[r].pc # "idle"
Answered(r) == req[r].pc = "done"

\* The 405 document: {"errors": [{"detail": "Method Not Allowed"}]}.
MethodNotAllowedResponse ==
    JSONAPIResponse(405, [errors |-> <<ErrorObject("Method Not Allowed")>>])

\* C1: an exception raised in before_request, in the handler stage or in
\* after_request never leaves handle_request: the request is always answered, and
\* the response in force right after a stage raised is the error document
\* serialize_error builds from that stage's exception.
C1_ExceptionsBecomeResponses ==
    \A r \in DOMAIN req :
        /\ req[r].pc # "propagated"
        /\ Answered(r) => req[r].response # NoResponse
        /\ (Answered(r) /\ (req[r].before_raised \/ req[r].after_raised)) =>
              /\ req[r].response = serialize_error(req[r].last_exc)
              /\ DOMAIN req[r].response.body = {"errors"}
        /\ (req[r].pc = "after" /\ req[r].handler_raised) =>
              /\ req[r].response = serialize_error(req[r].last_exc)
              /\ DOMAIN req[r].response.body = {"errors"}

\* C1 witness: a request answered with the generic 500 document after its
\* after_request hook raised an exception that is not an HTTPException.
C1_Witness ==
    \E r \in DOMAIN req :
        /\ Answered(r) /\ req[r].after_raised
        /\ req[r].last_exc.kind = "other"
        /\ req[r].response.status_code = 500

\* C2: the stages run in the order before_request, construction and handler,
\* after_request. When before_request raised, no resource was constructed, no
\* handler was called and after_request was not called. When before_request
\* returned, after_request is called exactly once, after the handler stage has
\* produced its response (returned or built from its exception), and receives
\* that response.
C2_StageOrder ==
    \A r \in DOMAIN req :
        /\ req[r].before_raised =>
              /\ ~req[r].constructed
              /\ req[r].handler_calls = 0
              /\ req[r].after_calls = 0
        /\ req[r].pc = "before" =>
              ~req[r].constructed /\ req[r].handler_calls = 0 /\ req[r].after_calls = 0
        /\ req[r].pc \in {"dispatch", "handler"} =>
              req[r].handler_calls = 0 /\ req[r].after_calls = 0
        /\ req[r].handler_calls > 0 => req[r].constructed
        /\ req[r].handler_calls <= 1
        /\ req[r].pc = "after" =>
              req[r].after_calls = 0 /\ req[r].handler_response # NoResponse
        /\ (Answered(r) /\ ~req[r].before_raised) =>
              /\ req[r].after_calls = 1
              /\ req[r].handler_response # NoResponse
              /\ req[r].after_arg = req[r].handler_response

\* C2 witness: a request whose handler raised and whose after_request hook was
\* then called once, with the error response of the handler stage.
C2_Witness ==
    \E r \in DOMAIN req :
        /\ Answered(r) /\ ~req[r].before_raised
        /\ req[r].handler_calls = 1 /\ req[r].handler_raised
        /\ req[r].after_calls = 1
        /\ req[r].after_arg.status_code = 500

\* C3: when after_request returns normally the final response is the response of
\* the handler stage (an error response included); when after_request raises, the
\* final response is the error document of after_request's exception.
C3_FinalResponse ==
    \A r \in DOMAIN req :
        (Answered(r) /\ ~req[r].before_raised) =>
            /\ ~req[r].after_raised => req[r].response = req[r].handler_response
            /\ req[r].after_raised => req[r].response = serialize_error(req[r].last_exc)

\* C3 witness: a successful handler response replaced by the error document of an
\* exception raised in after_request.
C3_Witness ==
    \E r \in DOMAIN req :
        /\ Answered(r) /\ req[r].after_raised
        /\ req[r].handler_response = HandlerOk
        /\ req[r].response.status_code = 401

\* C4 (as claimed): no key of a request's request_context was written while
\* another request was served.
C4_ContextIsFresh ==
    \A r \in DOMAIN req :
        InFlight(r) =>
            \A k \in Keys :
                ContextOf(r)[k] # Absent => ContextOf(r)[k].by \in {0, req[r].serial}

C6_Claimed ==
    \A r \in DOMAIN req :
        (Answered(r) /\ implemented[req[r].cls] = {}) =>
            req[r].response = MethodNotAllowedResponse

\* C6 (amended): for a class that overrides no handler, the handler stage of every
\* request produces the 405 document, on every route of BaseResource and of
\* BaseRelationshipResource, and it is the final response whenever before_request
\* and after_request return normally.
C6_DefaultHandlers ==
    \A r \in DOMAIN req :
        implemented[req[r].cls] = {} =>
            /\ (req[r].pc \in {"after", "done"} /\ ~req[r].before_raised) =>
                  req[r].handler_response = MethodNotAllowedResponse
            /\ (Answered(r) /\ ~req[r].before_raised /\ ~req[r].after_raised) =>
                  req[r].response = MethodNotAllowedResponse

\* C6 witness: the default get_related handler was called for an allowed GET and
\* the request was answered with the 405 document.
C6_Witness ==
    \E r \in DOMAIN req :
        /\ Answered(r)
        /\ implemented[req[r].cls] = {}
        /\ req[r].handler_name = "get_related" /\ req[r].handler_calls = 1
        /\ req[r].response = MethodNotAllowedResponse

\* C7: serialize_error maps a JSONAPIException (ResourceNotFound included) to its
\* own status code and errors list, any other HTTPException to its status code and
\* [{'detail': detail}], and every other exception, whatever its type and message,
\* to the same response: 500 with [{'detail': 'Internal server error'}]. The body
\* has the single top-level key errors.
C7_SerializeError ==
    excOut # NoResponse =>
        /\ DOMAIN excOut.body = {"errors"}
        /\ excArgs.class \in {"JSONAPIException", "ResourceNotFound"} =>
              /\ excOut.status_code = excArgs.status_code
              /\ excOut.body.errors = excObj.errors
        /\ excArgs.class = "HTTPException" =>
              /\ excOut.status_code = excArgs.status_code
              /\ excOut.body.errors =
                    <<ErrorObject(IF excArgs.detail = NoDetail
                                  THEN HTTPStatusPhrase(excArgs.status_code)
                                  ELSE excArgs.detail)>>
        /\ excArgs.class \in {"ValueError", "KeyError"} =>
              excOut = JSONAPIResponse(500, [errors |-> <<ErrorObject("Internal server error")>>])

\* C7 witness: a KeyError carrying a message has been serialized to the 500 document.
C7_Witness ==
    /\ excArgs.class = "KeyError" /\ excArgs.detail = "foo"
    /\ excOut # NoResponse
    /\ excOut.status_code = 500

\* C8: the errors list of JSONAPIException(status_code, detail, errors) is the
\* supplied list (empty when none is supplied) followed by the single entry
\* {'detail': detail}, detail defaulting to the HTTP phrase of status_code: n
\* supplied errors give n + 1 entries, in the supplied order, the detail entry last.
C8_ErrorsList ==
    excArgs.class = "JSONAPIException" =>
        LET detail == IF excArgs.detail = NoDetail
                      THEN HTTPStatusPhrase(excArgs.status_code)
                      ELSE excArgs.detail
        IN  /\ excObj.errors = excArgs.errors \o <<ErrorObject(detail)>>
            /\ Len(excObj.errors) = Len(excArgs.errors) + 1
            /\ excObj.errors[Len(excObj.errors)] = ErrorObject(detail)
            /\ \A i \in 1..Len(excArgs.errors) : excObj.errors[i] = excArgs.errors[i]

\* C8 witness: JSONAPIException(400, errors=[foo, bar]) has been constructed and
\* its errors list is [foo, bar, {'detail': 'Bad Request'}].
C8_Witness ==
    /\ excArgs.class = "JSONAPIException"
    /\ excArgs.status_code = 400 /\ excArgs.detail = NoDetail
    /\ excArgs.errors = <<ErrorObject("foo"), ErrorObject("bar")>>
    /\ excObj.errors = <<ErrorObject("foo"), ErrorObject("bar"), ErrorObject("Bad Request")>>

\* The validation errors deserialize_body / deserialize_ids found in the body of
\* request r, as error objects (empty when validation was not reached or passed).
ValidationFailures(r) ==
    IF ~req[r].body_read \/ req[r].body.text # "json" THEN <<>>
    ELSE IF req[r].helper = "deserialize_body"
    THEN Validate(req[r].body, req[r].handler_name = "patch")
    ELSE IF req[r].helper = "deserialize_ids"
    THEN MessagesToErrors(req[r].body.messages)
    ELSE <<>>

\* C9 (as claimed): when the body fails validation in deserialize_body or in
\* deserialize_ids, the response is 400 and its errors list is exactly the list of
\* validation errors, in order, with no other error object.
C9_OnlyValidationErrors ==
    \A r \in DOMAIN req :
        (req[r].pc \in {"after", "done"} /\ ValidationFailures(r) # <<>>) =>
            req[r].handler_response =
                JSONAPIResponse(400, [errors |-> ValidationFailures(r)])

\* C10: a POST or PATCH whose Content-Type is absent or is not exactly
\* application/vnd.api+json makes deserialize_body and deserialize_ids fail with
\* 400 and the fixed detail, whatever the body is, and the body is not read.
C10_ContentTypeFirst ==
    \A r \in DOMAIN req :
        (/\ req[r].helper \in {"deserialize_body", "deserialize_ids"}
         /\ req[r].method \in {"POST", "PATCH"}
         /\ req[r].content_type # JSONAPIMediaType) =>
            /\ ~req[r].body_read
            /\ req[r].handler_raised
            /\ req[r].handler_response =
                  JSONAPIResponse(400, [errors |-> <<ErrorObject(ContentTypeDetail)>>])

\* C10 witness: a PATCH on the relationship resource without a Content-Type header
\* and with a valid linkage document was answered with the content-type error.
C10_Witness ==
    \E r \in DOMAIN req :
        /\ Answered(r)
        /\ req[r].helper = "deserialize_ids" /\ req[r].method = "PATCH"
        /\ req[r].content_type = "<None>"
        /\ req[r].body.text = "json" /\ req[r].body.messages = <<>>
        /\ req[r].response.status_code = 400
        /\ req[r].response.body.errors = <<ErrorObject(ContentTypeDetail)>>

\* ------------------------------------------------- properties of registration

Registered == lastCall.kind = "resource" /\ lastCall.raised = None
Attached == lastCall.kind = "relationship" /\ lastCall.raised = None
Failed == lastCall.kind # "none" /\ lastCall.raised # None

\* The mount a successful BaseResource.register_routes call has just appended.
NewMount == app_routes[Len(app_routes)]

\* A path without the masks of its parameters.
Shape(path) == [i \in DOMAIN path |-> [param |-> path[i].param, text |-> path[i].text]]

\* What a route is to a client: method, path, name and the handler it dispatches to.
Facet(route) ==
    [methods |-> route.methods, path |-> Shape(route.path), name |-> route.name,
     handler_name |-> route.endpoint.handler_name]

\* The relationship fields of a class's schema that declare a related_resource.
RelatedFields(cls) ==
    LET fields == get_fields(GetAttr(cls, "schema")) IN
    { fields[i].name : i \in { j \in DOMAIN fields :
          fields[j].relationship /\ fields[j].related_resource # None } }

ItemPath == << [param |-> FALSE, text |-> "/"], [param |-> TRUE, text |-> "id"] >>
CollectionPath == << [param |-> FALSE, text |-> "/"] >>
RelatedPath(relationship) ==
    ItemPath \o << [param |-> FALSE, text |-> "/"], [param |-> FALSE, text |-> relationship] >>
RelatedIdPath(relationship) ==
    RelatedPath(relationship)
        \o << [param |-> FALSE, text |-> "/"], [param |-> TRUE, text |-> "related_id"] >>

\* The routes the documentation of register_routes promises for a class.
PromisedRoutes(cls) ==
    { [methods |-> {"GET"}, path |-> ItemPath, name |-> <<"get">>, handler_name |-> "get"],
      [methods |-> {"PATCH"}, path |-> ItemPath, name |-> <<"patch">>,
       handler_name |-> "patch"],
      [methods |-> {"DELETE"}, path |-> ItemPath, name |-> <<"delete">>,
       handler_name |-> "delete"],
      [methods |-> {"GET"}, path |-> CollectionPath, name |-> <<"get_many">>,
       handler_name |-> "get_many"],
      [methods |-> {"POST"}, path |-> CollectionPath, name |-> <<"post">>,
       handler_name |-> "post"] }
    \cup { [methods |-> {"GET"}, path |-> RelatedPath(rel), name |-> <<rel>>,
            handler_name |-> "get_related"] : rel \in RelatedFields(cls) }
    \cup { [methods |-> {"GET"}, path |-> RelatedIdPath(rel), name |-> <<rel, "-id">>,
            handler_name |-> "get_related"] : rel \in RelatedFields(cls) }

RECURSIVE Specifies(_, _)
Specifies(cls, attr) ==
    /\ cls # "BaseResource"
    /\ \/ ClassBody(cls)[attr] # Unset
       \/ Specifies(ClassBody(cls).base, attr)

\* C12: BaseResource.register_routes raises when the resource's type_ is unset
\* or when its schema is unset, and then adds nothing to the route table.
C12_RaisesWhenUnset ==
    (/\ lastCall.kind = "resource"
     /\ ~Specifies(lastCall.cls, "type_") \/ ~Specifies(lastCall.cls, "schema"))
        => Failed /\ app_routes = lastCall.before

\* The positions of the routes BaseResource.register_routes attached.
ResourceRoutePositions ==
    { pos \in UNION { {i} \X DOMAIN app_routes[i].routes : i \in DOMAIN app_routes } :
        app_routes[pos[1]].routes[pos[2]].endpoint.cls \in ResourceClasses }

\* '{mount name}:{route name}'
QualifiedName(pos) == [mount |-> app_routes[pos[1]].name, route |-> RouteAt(pos).name]

DistinctMountNames ==
    \A i, j \in DOMAIN app_routes : i # j => app_routes[i].name # app_routes[j].name

\* No two routes attached by BaseResource.register_routes share a method and a
\* qualified name, and each qualified name resolves to its route's own path.
NoNameCollision ==
    /\ \A pos, other \in ResourceRoutePositions :
          (pos # other /\ RouteAt(pos).methods \cap RouteAt(other).methods # {})
              => QualifiedName(pos) # QualifiedName(other)
    /\ \A pos \in ResourceRoutePositions :
          url_path_for(QualifiedName(pos), PathParams(RouteAt(pos).path))
              = app_routes[pos[1]].path \o RouteAt(pos).path

\* C13 as claimed: whenever the mount names are pairwise distinct, no two resource
\* routes of the same HTTP method share a qualified name, and every qualified name
\* resolves to the path under its own resource's prefix.
C13_Claimed == DistinctMountNames => NoNameCollision

\* The names register_routes gives to the GET routes of every resource.
PrimaryGetNames == {"get", "get_many"}

\* No registered resource has a related relationship named like a primary GET route.
NoFieldNamedLikeRoute ==
    \A pos \in ResourceRoutePositions :
        RelatedFields(RouteAt(pos).endpoint.cls) \cap PrimaryGetNames = {}

\* C13: whenever the mount names are pairwise distinct and no registered resource
\* has a relationship field with a related_resource named get or get_many, no two
\* resource routes of the same HTTP method share a qualified name, and every
\* qualified name resolves to the path under its own resource's prefix.
C13_NoCollisions == (DistinctMountNames /\ NoFieldNamedLikeRoute) => NoNameCollision

\* The same type_ is mounted at two prefixes under two mount names, and related
\* routes are among the routes.
C13_Witness ==
    /\ DistinctMountNames /\ NoFieldNamedLikeRoute
    /\ \E i, j \in DOMAIN app_routes :
          /\ app_routes[i].name = "articles" /\ app_routes[j].name = "v2-articles"
          /\ app_routes[i].path # app_routes[j].path
          /\ app_routes[i].path[Len(app_routes[i].path)]
                 = app_routes[j].path[Len(app_routes[j].path)]

IsPrefix(s, t) == Len(s) <= Len(t) /\ SubSeq(t, 1, Len(s)) = s

\* Every mount of the older route table is at its place in the newer one, with its
\* name, its path and its routes, in their order, followed by the routes added since.
Extends(newer, older) ==
    /\ Len(older) <= Len(newer)
    /\ \A i \in DOMAIN older :
          /\ newer[i].name = older[i].name
          /\ newer[i].path = older[i].path
          /\ IsPrefix(older[i].routes, newer[i].routes)

\* C14: the route table only grows. A successful BaseResource.register_routes call
\* appends exactly one mount to app.routes; no register_routes call, of a resource
\* or of a relationship resource, successful or not, removes, reorders or changes
\* a route registered before it.
C14_OnlyGrows ==
    /\ Extends(app_routes, lastCall.before)
    /\ Registered => Len(app_routes) = Len(lastCall.before) + 1
    /\ Attached => Len(app_routes) = Len(lastCall.before)
    /\ Failed => app_routes = lastCall.before

\* A resource is registered again under another base path, after a relationship
\* resource added routes to its first mount.
C14_Witness ==
    /\ Registered
    /\ \E i \in DOMAIN lastCall.before :
          /\ lastCall.before[i].name = NewMount.name
          /\ lastCall.before[i].path # NewMount.path
          /\ Len(lastCall.before[i].routes) > Len(NewMount.routes)

\* The parent_resource of the relationship resource registered last.
ParentOfLastCall == RelationshipBody(lastCall.cls).parent_resource

\* C15: BaseRelationshipResource.register_routes fails with 'Parent resource
\* should be registered first.' and adds no route whenever register_routes has not
\* registered its parent_resource class itself (a parent that specifies a type_),
\* also when the parent subclasses a registered resource class.
C15_ParentRequired ==
    (/\ lastCall.kind = "relationship"
     /\ ~Falsy(GetAttr(ParentOfLastCall, "type_"))
     /\ mount[ParentOfLastCall] = 0)
        => /\ lastCall.raised = ParentNotRegistered
           /\ app_routes = lastCall.before

\* ---------------------------------------------- properties of sparse fieldsets

Processed == sparse.op = "process" /\ sparse.calls >= 1

\* The resource objects of the primary data of a document, and those included.
PrimaryObjects(document, many) ==
    IF DataFalsy(document, many) THEN <<>>
    ELSE IF many THEN document.data ELSE << document.data >>
IncludedObjects(document) ==
    IF Has(document, "included") THEN document.included ELSE <<>>

Blocks == {"attributes", "relationships"}
MembersOf(object, block) == IF Has(object, block) THEN DOMAIN object[block] ELSE {}

\* What a sparse fieldset asks of one resource object: id, type and the members
\* outside the two blocks as they were, and of each block the named members only,
\* the block being absent when none is left.
SparseObject(before, after, fields) ==
    /\ after.id = before.id /\ after.type = before.type
    /\ DOMAIN after \ Blocks = DOMAIN before \ Blocks
    /\ \A key \in DOMAIN before \ Blocks : after[key] = before[key]
    /\ \A block \in Blocks :
          LET kept == MembersOf(before, block) \cap Range(fields) IN
          IF kept = {} THEN ~Has(after, block)
          ELSE /\ Has(after, block)
               /\ DOMAIN after[block] = kept
               /\ \A name \in kept : after[block][name] = before[block][name]

\* The same, for the resource objects of a list, position by position.
SparseObjects(before, after, mapping) ==
    /\ Len(after) = Len(before)
    /\ \A i \in DOMAIN before :
          IF Has(mapping, before[i].type)
          THEN SparseObject(before[i], after[i], mapping[before[i].type])
          ELSE after[i] = before[i]

OnItsOwn(object, mapping) ==
    process_sparse_fields([data |-> object], FALSE, mapping).data

EachOnItsOwn(before, after, mapping) ==
    /\ Len(after) = Len(before)
    /\ \A i \in DOMAIN before :
          /\ after[i] = OnItsOwn(before[i], mapping)
          /\ ~Has(mapping, before[i].type) => after[i] = before[i]

Parsed == sparse.op = "parse" /\ sparse.parsed

\* The fields[...] parameters of the request parsed, and the resource type each names.
FieldsParams ==
    { param \in Range(sparse.query_params) :
        param.name \in { FieldsParam("articles"), FieldsParam("people"),
                         <<"fields", "[", "]">> } }
TypeNamed(param) == SubSeq(param.name, 3, Len(param.name) - 1)

OnlyCommas(value) == \A i \in DOMAIN value : value[i] = ","

\* Some field of the comma-separated value is empty: the value is empty, starts or
\* ends with a comma, or has two commas in a row.
SomeFieldEmpty(value) ==
    \/ value = <<>>
    \/ value[1] = "," \/ value[Len(value)] = ","
    \/ \E i \in 1..(Len(value) - 1) : value[i] = "," /\ value[i + 1] = ","

\* The fields of a list, written with commas between them.
RECURSIVE Join(_)
Join(fields) ==
    IF Len(fields) = 0 THEN <<>>
    ELSE IF Len(fields) = 1 THEN fields[1]
    ELSE fields[1] \o <<",">> \o Join(Tail(fields))

\* The result of a parse that raises when some fields parameter is rejected, and
\* otherwise maps every fields parameter's type to its fields, in their order.
ParsesUnless(rejected(_)) ==
    /\ sparse.result.raised <=> \E param \in FieldsParams : rejected(param)
    /\ sparse.result.raised =>
          /\ sparse.result.exc.kind = "jsonapi"
          /\ sparse.result.exc.status_code = 400
          /\ sparse.result.exc.detail = IncorrectSparseFields
    /\ ~sparse.result.raised =>
          /\ DOMAIN sparse.result.sparse_fields = { TypeNamed(param) : param \in FieldsParams }
          /\ \A param \in FieldsParams :
                LET fields == sparse.result.sparse_fields[TypeNamed(param)] IN
                /\ Join(fields) = param.value
                /\ \A i \in DOMAIN fields : fields[i] # <<>> /\ "," \notin Range(fields[i])

RejectedIfAllEmpty(param) ==
    TypeNamed(param) = <<>> \/ param.value = <<>> \/ OnlyCommas(param.value)

RejectedIfSomeEmpty(param) ==
    TypeNamed(param) = <<>> \/ SomeFieldEmpty(param.value)

\* C18 as claimed: parse_sparse_fields_params raises the 400 'Incorrect sparse
\* fields request.' exactly when some fields parameter has an empty type name, an
\* empty value, or a value whose comma-separated fields are all empty, and
\* otherwise returns type -> fields for each fields parameter.
C18_Claimed == Parsed => ParsesUnless(RejectedIfAllEmpty)

\* C18: parse_sparse_fields_params raises the 400 'Incorrect sparse fields
\* request.' exactly when some fields parameter has an empty type name, an empty
\* value, or a value one of whose comma-separated fields is empty, and otherwise
\* returns type -> fields, in request order, for each fields parameter.
C18_ParseSparseFields == Parsed => ParsesUnless(RejectedIfSomeEmpty)

\* fields[articles]=a, is rejected: one of its two fields is empty, the other is not.
C18_Witness ==
    /\ Parsed
    /\ sparse.query_params = << [name |-> FieldsParam("articles"), value |-> <<"a", ",">>] >>
    /\ sparse.result.raised
    /\ sparse.result.exc.status_code = 400

\* --------------------------------------------------- properties of pagination

\* process_query_params has run to its end.
QueryProcessed ==
    /\ paginator.strategy # "none"
    /\ paginator.pc \in {"constructed", "responded"}
    /\ ~paginator.raised

\* C19: for the page-number, offset and cursor strategies, once the query
\* parameters are processed the effective page size is within [1, max_page_size],
\* whatever page[size] was requested (0 and negative numbers too) and whatever
\* default_page_size is configured.
C19_PageSizeWithinBounds ==
    QueryProcessed =>
        /\ 1 <= paginator.page_size
        /\ paginator.page_size <= paginator.max_page_size

\* A page parameter the strategy reads as a number was given a text that is none.
NotNumeric(raw) == raw.given /\ ~int(raw.text).ok
NonNumericParameter ==
    \/ NotNumeric(paginator.query.size)
    \/ paginator.strategy = "page-number" /\ NotNumeric(paginator.query.number)
    \/ paginator.strategy = "offset" /\ NotNumeric(paginator.query.offset)

\* C20: a request whose page[size] (or page[number] / page[offset]) is not numeric
\* is answered with a 400 pagination error, not with a 500.
C20_NonNumericIs400 ==
    (/\ paginator.strategy # "none"
     /\ paginator.pc = "responded"
     /\ NonNumericParameter)
        => /\ paginator.response.status_code = 400
           /\ paginator.response.status_code # 500

\* ------------------------------------------------------ properties of logging

\* The step raised an exception inside request r: one of the three try blocks of
\* handle_request entered its except clause.
RaisedIn(r) ==
    /\ req'[r].serial = req[r].serial
    /\ \/ ~req[r].before_raised /\ req'[r].before_raised
       \/ ~req[r].handler_raised /\ req'[r].handler_raised
       \/ ~req[r].after_raised /\ req'[r].after_raised

\* The generic answer to an unexpected exception.
InternalServerError == JSONAPIResponse(500, [errors |-> <<ErrorObject("Internal server error")>>])

\* C26: handle_error logs an error record exactly when the exception it is handed
\* is not an HTTPException (JSONAPIException included): each such exception of a
\* request adds one record, an HTTPException (400, 401, 404, 405) adds none, a
\* request answered with the generic 500 has at least one record.
C26_LogsUnexpectedOnly ==
    /\ [](\A r \in DOMAIN req :
            req[r].pc = "done" /\ req[r].response = InternalServerError
                => req[r].logged >= 1)
    /\ [][\A r \in DOMAIN req :
            req'[r].serial = req[r].serial =>
                req'[r].logged =
                    req[r].logged +
                    (IF RaisedIn(r) /\ ~IsHTTPException(req'[r].last_exc)
                     THEN 1 ELSE 0)]_vars

\* A request whose handler and whose after_request hook both raised an unexpected
\* exception is answered with the generic 500 and was logged twice.
C26_Witness ==
    \E r \in DOMAIN req :
        /\ req[r].pc = "done"
        /\ req[r].handler_raised /\ req[r].after_raised
        /\ req[r].response = InternalServerError
        /\ req[r].logged = 2

\* ------------------------------------------- properties of the `errors` argument

\* C30: constructing JSONAPIException(status_code, detail, errors=L) leaves the
\* list L as it was: however often L was passed, it has the elements it had at
\* first, and the exception's errors are those elements followed by its own detail
\* entry only.
C30_ListUnchanged ==
    callerErrors.passes > 0 =>
        /\ callerErrors.now = callerErrors.initial
        /\ excObj.errors = callerErrors.initial \o <<ErrorObject(excObj.detail)>>

\* ---------------------------------------- properties of serving related resources

\* C28: when two get_related requests are served at the same time, the `self`
\* link serialize_related builds for a request carries the parent id (and the
\* related id) of that request's own path, never those of the other request.
C28_OwnSelfLink ==
    \A r \in DOMAIN req :
        req[r].self_link # NoLink =>
            /\ req[r].self_link.id = req[r].path_params.id
            /\ req[r].self_link.related_id \in {None, req[r].path_params.related_id}

\* C29: a request matched by /{id}/{relationship}/{related_id} gets its `self`
\* link from the `{relationship}-id` route whatever the related_id (0 included),
\* and a request matched by /{id}/{relationship} from the `{relationship}` route.
C29_RouteOfSelfLink ==
    \A r \in DOMAIN req :
        req[r].self_link # NoLink => req[r].self_link.route = req[r].route

\* ---------------------------------------------- properties of serialization

\* serialize got past the pagination of its data.
Sliced == serialized.op = "serialize" /\ (serialized.paginate => "paginate" \in Range(serialized.steps))

\* serialize dumped the data.
Dumped == serialized.op = "serialize" /\ "dump" \in Range(serialized.steps)

\* The include parameter names at least one relation path.
IncludeGiven == serialized.include.given /\ serialized.include.text # <<>>

PaginationLinks == {"first", "next", "prev", "last"}

\* C21: the page-number strategy over N items with page size S >= 1 and page
\* P >= 1: the page holds the items (P-1)*S+1 .. P*S that exist; `first` is page 1;
\* `last` is page ceil(N/S), or page 1 when N = 0; `next` is P+1 exactly when
\* P < last page and null otherwise; `prev` is P-1 exactly when P > 1 and null
\* otherwise; without page parameters and with 4 items the page has 2 items and
\* `next` is page 2.
C21_PageNumberLinks ==
    (/\ Sliced /\ serialized.paginate
     /\ serialized.paginator.page_size >= 1
     /\ serialized.paginator.page_number >= 1) =>
        LET N == Len(serialized.data)
            S == serialized.paginator.page_size
            P == serialized.paginator.page_number
            links == serialized.links
            last_page == IF N = 0 THEN 1 ELSE (N + S - 1) \div S
            positions == { i \in 1..N : (P - 1) * S < i /\ i <= P * S }
        IN  /\ Len(serialized.page) = Cardinality(positions)
            /\ \A i \in DOMAIN serialized.page :
                  serialized.page[i] = serialized.data[(P - 1) * S + i]
            /\ links.first = [page_number |-> 1, page_size |-> S]
            /\ links.last = [page_number |-> last_page, page_size |-> S]
            /\ links.next = IF P < last_page
                            THEN [page_number |-> P + 1, page_size |-> S]
                            ELSE NoneData
            /\ links.prev = IF P > 1
                            THEN [page_number |-> P - 1, page_size |-> S]
                            ELSE NoneData
            /\ (N = 4 /\ ~serialized.paginator.query.size.given
                      /\ ~serialized.paginator.query.number.given)
                  => /\ serialized.page = <<"1", "2">>
                     /\ links.next = [page_number |-> 2, page_size |-> 2]

\* C22: once serialize has reached _prepare_included with a non-empty include
\* parameter on a resource that does not override include_relations, the request
\* is answered with a 400 error document without `data`, for one object and for
\* a collection; without an include parameter, or with an empty one,
\* include_relations is never called.
C22_IncludeUnsupported ==
    (Sliced /\ serialized.pc = "responded") =>
        /\ (IncludeGiven /\ ~serialized.overrides) =>
              /\ serialized.response.status_code = 400
              /\ Has(serialized.response.body, "errors")
              /\ ~Has(serialized.response.body, "data")
        /\ ~IncludeGiven => /\ serialized.calls = <<>>
                            /\ "include" \notin Range(serialized.steps)

\* C23: the document of serialize(paginate=True) holds every link of the
\* paginator under `links`, null ones too, next to the top-level links the schema
\* dumped (its `self` is still there); without paginate=True the document has no
\* pagination link.
C23_LinksMerged ==
    Dumped =>
        /\ serialized.paginate =>
              /\ Has(serialized.output, "links")
              /\ \A k \in PaginationLinks :
                    /\ Has(serialized.output.links, k)
                    /\ serialized.output.links[k] = serialized.links[k]
              /\ Has(serialized.body, "links") =>
                    \A k \in DOMAIN serialized.body.links :
                       /\ Has(serialized.output.links, k)
                       /\ serialized.output.links[k] = serialized.body.links[k]
        /\ ~serialized.paginate =>
              (Has(serialized.output, "links") =>
                  DOMAIN serialized.output.links \cap PaginationLinks = {})

\* The place of a step in a serialize call.
Rank(step) ==
    CASE step = "paginate" -> 1 [] step = "include" -> 2 [] step = "dump" -> 3
      [] step = "sparse" -> 4 [] step = "links" -> 5

\* C27: the steps of one serialize call come in the order page slicing (only
\* with paginate=True), include_relations calls, schema dump, sparse-fieldset
\* filtering, attachment of the pagination links. include_relations is awaited
\* only for objects of the data that is dumped: with many=True once for each
\* item of the page, in order, with many=False once; each call is handed every
\* distinct relation path of the include parameter exactly once.
C27_SerializeSteps ==
    serialized.op = "serialize" =>
        LET steps == serialized.steps
            calls == serialized.calls
            dumped == IF serialized.many THEN serialized.page ELSE <<serialized.page[1]>>
            paths == Range(split(serialized.include.text))
            count(step) == Cardinality({ i \in DOMAIN steps : steps[i] = step })
        IN  /\ \A i, j \in DOMAIN steps : i < j => Rank(steps[i]) <= Rank(steps[j])
            /\ \A step \in {"paginate", "dump", "sparse", "links"} : count(step) <= 1
            /\ count("paginate") = 1 => serialized.paginate
            /\ count("links") = 1 => serialized.paginate
            /\ Len(calls) <= Len(dumped)
            /\ \A i \in DOMAIN calls :
                  /\ Sliced /\ IncludeGiven
                  /\ calls[i].obj = dumped[i]
                  /\ Range(calls[i].relations) = paths
                  /\ Len(calls[i].relations) = Cardinality(paths)
            /\ Dumped =>
                  /\ count("paginate") = (IF serialized.paginate THEN 1 ELSE 0)
                  /\ count("links") = count("paginate")
                  /\ count("sparse") = 1
                  /\ count("include") = Len(calls)
                  /\ Len(calls) = (IF IncludeGiven THEN Len(dumped) ELSE 0)
                  /\ LET data == serialized.body.data
                     IN  IF serialized.many
                         THEN /\ Len(data) = Len(dumped)
                              /\ \A i \in DOMAIN data : data[i].id = dumped[i]
                         ELSE data.id = dumped[1]

\* A paginated collection with an include parameter naming one path twice: the
\* page is shorter than the data, include_relations was awaited for the two
\* items of the page, and the document has its links.
C27_Witness ==
    /\ serialized.op = "serialize"
    /\ serialized.pc = "returned"
    /\ serialized.include = Given(<<"a", ",", "a">>)
    /\ Len(serialized.page) = 2 /\ Len(serialized.data) > 2
    /\ serialized.steps = <<"paginate", "include", "include", "dump", "sparse", "links">>
    /\ serialized.calls = << [obj |-> serialized.page[1], relations |-> << <<"a">> >>],
                             [obj |-> serialized.page[2], relations |-> << <<"a">> >>] >>

\* ------------------------------------- properties of links and relationships

\* The schema has dumped the article.
SchemaDumped == serialized.op = "dump" /\ serialized.pc = "dumped"

\* The route names the schema and its relationship field are configured with.
LinkRoutes ==
    [self |-> serialized.self_route,
     relationship_self |-> serialized.author.self_route,
     related |-> serialized.author.related_route]

\* A route of that name, expecting those parameters, was registered when the
\* schema dumped.
RegisteredThen(name) ==
    \E i \in DOMAIN serialized.routes :
        /\ serialized.routes[i].name = name.mount
        /\ \E j \in DOMAIN serialized.routes[i].routes :
              /\ serialized.routes[i].routes[j].name = name.route
              /\ PathParams(serialized.routes[i].routes[j].path) = name.kwargs

\* The links of the dumped resource object, by kind: absent ones left out.
DumpedLinks ==
    LET data == serialized.result.data
        author == IF Has(data, "relationships") THEN data.relationships.author
                  ELSE EmptyMapping
        of_author == IF Has(author, "links") THEN author.links ELSE EmptyMapping
    IN  { kind \in {"self", "relationship_self", "related"} :
            CASE kind = "self" -> Has(data, "links") /\ Has(data.links, "self")
              [] kind = "relationship_self" -> Has(of_author, "self")
              [] kind = "related" -> Has(of_author, "related") }

\* C24 as claimed: generating the links never makes the dump fail.
C24_Claimed == SchemaDumped => ~serialized.result.raised

\* C24: without an application bound to the schema, or without a route name, a
\* self, related or relationship-self link is left out and the dump succeeds; a
\* relationship none of whose links is there has no `links` object. With an
\* application and a route name the link is resolved by app.url_path_for: it is
\* there when the route is registered, and the dump fails with NoMatchFound
\* when it is not.
C24_LinksOmitted ==
    SchemaDumped =>
        LET configured == { kind \in DOMAIN LinkRoutes :
                               serialized.app /\ LinkRoutes[kind] # NoRoute }
            data == serialized.result.data
        IN  /\ serialized.result.raised <=>
                  \E kind \in configured : ~RegisteredThen(LinkRoutes[kind])
            /\ ~serialized.result.raised =>
                  /\ DumpedLinks = configured
                  /\ Has(data, "relationships") =>
                        (Has(data.relationships.author, "links")
                            <=> configured \cap {"relationship_self", "related"} # {})

\* A schema without an application, all its route names configured and
\* registered: the dump succeeds and the resource object has no link.
C24_Witness ==
    /\ SchemaDumped
    /\ ~serialized.app
    /\ \A kind \in DOMAIN LinkRoutes :
          LinkRoutes[kind] # NoRoute /\ RegisteredThen(LinkRoutes[kind])
    /\ ~serialized.result.raised
    /\ DumpedLinks = {}
    /\ Has(serialized.result.data, "relationships")

\* C25: a relationship field for which no resource linkage was asked
\* (include_resource_linkage not passed, or passed as False), which has no self
\* and no related route and is not included as compound data, leaves nothing in
\* the dumped resource object: no `relationships` block. With linkage asked for
\* and the relationship not included, the linkage id is the value of the
\* attribute id_attribute names if there is one, else the id of the related object.
C25_NotRendered ==
    (SchemaDumped /\ ~serialized.result.raised /\ ~serialized.include_data) =>
        LET field == serialized.author
            data == serialized.result.data
        IN  /\ (/\ field.passed # "True"
                /\ field.self_route = NoRoute
                /\ field.related_route = NoRoute)
                  => ~Has(data, "relationships")
            /\ field.passed = "True" =>
                  /\ Has(data, "relationships")
                  /\ data.relationships.author.data.id =
                        (IF field.id_attribute # None
                         THEN Article[field.id_attribute] ELSE Article.author)

====
